---- MODULE Spec2Model ----
(***************************************************************************)
(* Model of the GPU telemetry acquisition layer (GpuReader, the three      *)
(* vendor backends, GpuService) and of the delta engine of the system      *)
(* server (SystemDBusServer::calculateDelta / resetProcessDeltaData) of    *)
(* deepin-system-monitor.                                                  *)
(***************************************************************************)
EXTENDS Integers, Sequences, FiniteSets, TLC

VARIABLES
    m_processLastValues,  \* SystemDBusServer: pid -> ProcessDeltaData
    deltaCall,            \* the last delta-engine call and what it returned
    deltaCalcs,           \* number of calculateDelta calls made so far
    deltaResets,          \* number of resetProcessDeltaData calls made so far
    observed,             \* history: <<pid, field>> -> the value last passed since the pid's last reset
    resetPids             \* history: the pids whose cached state a reset has dropped

VARIABLES
    env,                  \* the process environment: DSM_DISABLE_NVML, the NVML library on disk
    svcState,             \* lifecycle of the GpuService object: "none" | "alive"
    d_ptr,                \* GpuBackendNvidia::NvidiaBackendPrivate of the service's Nvidia backend
    m_engineCache,        \* GpuBackendIntel::m_engineCache: device path -> engines
    nvmlLog,              \* history: what has been done to the NVML library in this process
    lastRead,             \* the last readStatsFor call and what it returned
    constructions,        \* number of GpuService objects constructed so far
    m_devices,            \* GpuService::m_devices: the cached device list
    devicesLog            \* history: the devices() calls made on the current service

VARIABLES
    drm,                  \* the entries of /sys/class/drm, in listing order
    enumerated            \* the last GpuReader::enumerate call and what it returned

VARIABLES
    calcIn,               \* the function applied to bounded inputs, and its argument
    calcOut               \* whether it has been applied, and its result

VARIABLES
    sysCards,             \* the devices GpuReader::enumerate returns now
    sysStats,             \* device path -> what a readStatsFor of a device there delivers now
    monitor,              \* CompactGpuMonitor: its members
    monitorLog,           \* history: the last constructor or onTick run of the monitor
    view,                 \* GpuDetailViewWidget: its members and GPU items
    viewLog               \* history: the last update of the view

VARIABLES
    m_deltaDataMutex,     \* SystemDBusServer::m_deltaDataMutex: the thread holding it, 0 if none
    callers,              \* thread -> its call into the delta engine, its position and locals
    unitFiles,                \* systemd: unit -> "enabled" | "disabled"
    lastServiceCall,      \* history: the last setServiceEnable call and what it did
    series                \* history: <<pid, field>> -> the values passed and deltas returned since the pid's last reset

deltaVars == <<m_processLastValues, deltaCall, deltaCalcs, deltaResets, observed, resetPids>>

gpuVars == <<env, svcState, d_ptr, m_engineCache, nvmlLog, lastRead, constructions,
            m_devices, devicesLog>>

enumVars == <<drm, enumerated>>

calcVars == <<calcIn, calcOut>>

guiVars == <<sysCards, sysStats, monitor, monitorLog, view, viewLog>>

srvVars == <<m_deltaDataMutex, callers, unitFiles, lastServiceCall, series>>

vars == <<m_processLastValues, deltaCall, deltaCalcs, deltaResets, observed, resetPids,
          env, svcState, d_ptr, m_engineCache, nvmlLog, lastRead, constructions,
          m_devices, devicesLog, drm, enumerated, calcIn, calcOut,
          sysCards, sysStats, monitor, monitorLog, view, viewLog,
          m_deltaDataMutex, callers, unitFiles, lastServiceCall, series>>

(***************************************************************************)
(* Delta engine: systemdbusserver.cpp                                      *)
(***************************************************************************)

\* Bounds of the delta-engine model.
MaxValue == 0
MaxDeltaCalcs == 2
MaxDeltaResets == 1

\* Two processes: enough to tell a pid from "another pid".
Pids == {1, 2}

\* qulonglong arithmetic is modelled at a reduced width: values live in
\* 0 .. U64Modulus-1 and an unguarded subtraction wraps around the modulus.
U64Modulus == 64
U64Max == U64Modulus - 1

DeltaValues == (0..MaxValue) \cup {U64Max}

\* The seven fields calculateDelta knows (the if/else-if chain).
KnownFields == {"utime", "stime", "cutime", "cstime",
                "read_bytes", "write_bytes", "cancelled_write_bytes"}

\* "rbytes" is one of the network fields whose branch is commented out: no
\* branch of the chain matches it.
DeltaFields == KnownFields \cup {"rbytes"}

\* A default-constructed ProcessDeltaData: every counter 0 and every
\* "first time" flag set.
NewProcessDeltaData == [f \in KnownFields |-> [last |-> 0, firstTime |-> TRUE]]

\* currentValue - *lastValuePtr on qulonglong.
U64Sub(a, b) == (a - b) % U64Modulus

\* m_processLastValues[pid]: QMap::operator[] inserts a default entry when the
\* key is absent.
MapIndex(map, pid) ==
    IF pid \in DOMAIN map THEN map ELSE map @@ (pid :> NewProcessDeltaData)

\* Mutants of CalculateDelta.
CalculateDeltaNoBootstrap(map, pid, field, cur) ==
    LET m1 == MapIndex(map, pid)
        last == m1[pid][field].last
    IN  IF field \in KnownFields
        THEN [map |-> [m1 EXCEPT ![pid][field] = [last |-> cur, firstTime |-> FALSE]],
              delta |-> IF cur >= last THEN U64Sub(cur, last) ELSE 0]
        ELSE [map |-> m1, delta |-> 0]

CalculateDeltaKeepBaseline(map, pid, field, cur) ==
    LET m1 == MapIndex(map, pid)
        lastData == m1[pid]
    IN  IF field \in KnownFields
        THEN IF lastData[field].firstTime
             THEN [map |-> [m1 EXCEPT ![pid][field] = [last |-> cur, firstTime |-> FALSE]],
                   delta |-> 0]
             ELSE [map |-> m1,
                   delta |-> IF cur >= lastData[field].last
                             THEN U64Sub(cur, lastData[field].last)
                             ELSE 0]
        ELSE [map |-> m1, delta |-> 0]

CalculateDeltaUnguarded(map, pid, field, cur) ==
    LET m1 == MapIndex(map, pid)
    IN  IF field \in KnownFields
        THEN [map |-> [m1 EXCEPT ![pid][field] = [last |-> cur, firstTime |-> FALSE]],
              delta |-> IF m1[pid][field].firstTime THEN 0
                        ELSE U64Sub(cur, m1[pid][field].last)]
        ELSE [map |-> m1, delta |-> 0]

\* SystemDBusServer::calculateDelta, under m_deltaDataMutex: the new map and the
\* returned delta.
CalculateDelta(map, pid, field, cur) ==
    LET m1 == MapIndex(map, pid)
        lastData == m1[pid]
    IN  IF field \in KnownFields
        THEN IF lastData[field].firstTime
             THEN [map |-> [m1 EXCEPT ![pid][field] = [last |-> cur, firstTime |-> FALSE]],
                   delta |-> 0]
             ELSE [map |-> [m1 EXCEPT ![pid][field].last = cur],
                   delta |-> IF cur >= lastData[field].last
                             THEN U64Sub(cur, lastData[field].last)
                             ELSE 0]
        ELSE [map |-> m1, delta |-> 0]

\* Mutant of ResetProcessDeltaData: clears the whole map.
ResetProcessDeltaDataAll(map, pid) ==
    [p \in {} |-> NewProcessDeltaData]

\* SystemDBusServer::resetProcessDeltaData: m_processLastValues.remove(pid).
ResetProcessDeltaData(map, pid) ==
    [p \in (DOMAIN map) \ {pid} |-> map[p]]

NoDeltaCall ==
    [op |-> "none", pid |-> 0, field |-> "", value |-> 0, delta |-> 0,
     first |-> FALSE, base |-> 0]

DeltaInit ==
    /\ m_processLastValues = [p \in {} |-> NewProcessDeltaData]
    /\ deltaCall = NoDeltaCall
    /\ deltaCalcs = 0
    /\ deltaResets = 0
    /\ observed = [k \in {} |-> 0]
    /\ resetPids = {}

\* One call of calculateDelta(pid, field, cur) by getProcessInfoBatch's callback.
DoCalculateDeltaOf(pids, fields, values, maxCalls) ==
    /\ deltaCalcs < maxCalls
    /\ \E pid \in pids, field \in fields, cur \in values :
         LET r == CalculateDelta(m_processLastValues, pid, field, cur)
             k == <<pid, field>>
         IN  /\ m_processLastValues' = r.map
             /\ deltaCall' = [op |-> "calculateDelta", pid |-> pid, field |-> field,
                              value |-> cur, delta |-> r.delta,
                              first |-> k \notin DOMAIN observed,
                              base |-> IF k \in DOMAIN observed THEN observed[k] ELSE 0]
             /\ observed' = [x \in (DOMAIN observed) \cup {k} |->
                               IF x = k THEN cur ELSE observed[x]]
    /\ deltaCalcs' = deltaCalcs + 1
    /\ UNCHANGED <<resetPids, deltaResets>>

DoCalculateDelta == DoCalculateDeltaOf(Pids, DeltaFields, DeltaValues, MaxDeltaCalcs)

\* One call of resetProcessDeltaData(pid).
DoResetProcessDeltaData ==
    /\ deltaResets < MaxDeltaResets
    /\ \E pid \in Pids :
         /\ m_processLastValues' = ResetProcessDeltaData(m_processLastValues, pid)
         /\ deltaCall' = [op |-> "reset", pid |-> pid, field |-> "", value |-> 0,
                          delta |-> 0, first |-> FALSE, base |-> 0]
         /\ observed' = [x \in {y \in DOMAIN observed : y[1] # pid} |-> observed[x]]
         /\ resetPids' = IF \E y \in DOMAIN observed : y[1] = pid
                         THEN resetPids \cup {pid} ELSE resetPids
    /\ deltaResets' = deltaResets + 1
    /\ UNCHANGED deltaCalcs

DeltaNext == DoCalculateDelta \/ DoResetProcessDeltaData


\* Bounds of the series of calls on one counter: their number and the
\* largest small value passed.
MaxSeriesLen == 3
MaxSeriesValue == 2

SeriesValues == (0..MaxSeriesValue) \cup {U64Max}

\* Two of the fields getProcessInfoBatch passes: one of the stat counters and
\* one of the io counters.
SeriesFields == {"utime", "read_bytes"}

SeriesIdle == series = [k \in {} |-> <<>>]

\* One call of calculateDelta in a series, the value passed and the delta
\* returned noted down.
SeriesCalculateDelta ==
    /\ DoCalculateDeltaOf({1}, SeriesFields, SeriesValues, MaxSeriesLen)
    /\ LET k == <<deltaCall'.pid, deltaCall'.field>>
           e == [value |-> deltaCall'.value, delta |-> deltaCall'.delta]
       IN  series' = [x \in (DOMAIN series) \cup {k} |->
                        IF x = k
                        THEN (IF k \in DOMAIN series THEN series[k] ELSE <<>>) \o <<e>>
                        ELSE series[x]]

\* One call of resetProcessDeltaData between the calls of a series.
SeriesReset ==
    /\ DoResetProcessDeltaData
    /\ series' = [x \in {y \in DOMAIN series : y[1] # deltaCall'.pid} |-> series[x]]
(***************************************************************************)
(* GPU devices and statistics: gpu.h                                       *)
(***************************************************************************)

\* enum class GpuVendor.
Vendors == {"Nvidia", "AMD", "Intel", "Unknown"}

\* Bounds of the GPU model.
MaxCards == 2
MaxConstructions == 2
MaxMissing == 1

\* Device paths /sys/class/drm/card<n>/device, named by n.
DevicePaths == 0..(MaxCards - 1)

\* struct GpuDevice, reduced to what the backends read.
GpuDevices == [vendor : Vendors, devicePath : DevicePaths]

\* A default-constructed GpuStats, reduced to the fields readStats writes.
DefaultGpuStats ==
    [utilizationPercent |-> -1, memoryUsedBytes |-> 0, memoryTotalBytes |-> 0,
     temperatureC |-> -1, coreClockkHz |-> -1, memoryClockkHz |-> -1]

\* The result of a read that may fail: a file that is missing, empty or
\* unparsable, or a library call that does not return NVML_SUCCESS.
Absent == [ok |-> FALSE, v |-> 0]
Some(x) == [ok |-> TRUE, v |-> x]
Maybe(S) == {Absent} \cup {Some(x) : x \in S}

\* C++ integer division truncates towards zero.
TruncDiv(a, b) == IF a >= 0 THEN a \div b ELSE -((-a) \div b)

(***************************************************************************)
(* Nvidia backend: gpu_backend_nvidia.cpp                                  *)
(***************************************************************************)

\* The symbols resolveFunctions requires.
RequiredSymbols ==
    {"nvmlInit_v2", "nvmlShutdown", "nvmlDeviceGetHandleByPciBusId_v2",
     "nvmlDeviceGetUtilizationRates", "nvmlDeviceGetMemoryInfo",
     "nvmlDeviceGetTemperature"}

\* The symbols resolveFunctions resolves after the required ones.
OptionalSymbols ==
    {"nvmlDeviceGetCount_v2", "nvmlDeviceGetPowerUsage", "nvmlDeviceGetClockInfo",
     "nvmlDeviceGetFanSpeed", "nvmlDeviceGetPerformanceState",
     "nvmlSystemGetDriverVersion", "nvmlSystemGetNVMLVersion",
     "nvmlDeviceGetVbiosVersion", "nvmlDeviceGetComputeRunningProcesses",
     "nvmlDeviceGetGraphicsRunningProcesses"}

AllSymbols == RequiredSymbols \cup OptionalSymbols

\* A freshly constructed NvidiaBackendPrivate: not initialized, library not
\* loaded, every function pointer null (fn is the set of non-null pointers).
NewNvidiaBackendPrivate == [initialized |-> FALSE, loaded |-> FALSE, fn |-> {}]

\* Nothing has been done to the library yet.
EmptyNvmlLog == [attempts |-> 0, loads |-> 0, unloads |-> 0, inits |-> 0, shutdowns |-> 0]

\* Mutant of ResolveFunctions: the check forgets one required pointer.
ResolveFunctionsLax(symbols) ==
    LET required == symbols \cap RequiredSymbols
    IN  IF (RequiredSymbols \ {"nvmlDeviceGetTemperature"}) \subseteq required
        THEN [ok |-> TRUE, fn |-> symbols \cap AllSymbols]
        ELSE [ok |-> FALSE, fn |-> required]

\* NvidiaBackendPrivate::resolveFunctions on a library exporting `symbols`:
\* the required pointers are assigned first; the optional ones only when all
\* required ones resolved.
ResolveFunctions(symbols) ==
    LET required == symbols \cap RequiredSymbols
    IN  IF required = RequiredSymbols
        THEN [ok |-> TRUE, fn |-> symbols \cap AllSymbols]
        ELSE [ok |-> FALSE, fn |-> required]

\* Mutant of InitializeNvml: the environment variable is not consulted.
InitializeNvmlIgnoringEnv(d, e, log) ==
    IF d.initialized THEN [ret |-> TRUE, d |-> d, log |-> log]
    ELSE IF ~e.libLoadable
    THEN [ret |-> FALSE, d |-> d, log |-> [log EXCEPT !.attempts = @ + 1]]
    ELSE LET r == ResolveFunctions(e.libSymbols)
             l1 == [log EXCEPT !.attempts = @ + 1, !.loads = @ + 1]
         IN  IF ~r.ok
             THEN [ret |-> FALSE, d |-> [d EXCEPT !.fn = r.fn],
                   log |-> [l1 EXCEPT !.unloads = @ + 1]]
             ELSE IF ~e.initOk
             THEN [ret |-> FALSE, d |-> [d EXCEPT !.fn = r.fn],
                   log |-> [l1 EXCEPT !.inits = @ + 1, !.unloads = @ + 1]]
             ELSE [ret |-> TRUE,
                   d |-> [initialized |-> TRUE, loaded |-> TRUE, fn |-> r.fn],
                   log |-> [l1 EXCEPT !.inits = @ + 1]]

\* GpuBackendNvidia::initializeNvml in environment e: the return value, the
\* new private state and the new library history.
InitializeNvml(d, e, log) ==
    IF d.initialized THEN [ret |-> TRUE, d |-> d, log |-> log]
    ELSE IF e.disableNvml THEN [ret |-> FALSE, d |-> d, log |-> log]
    ELSE IF ~e.libLoadable
    THEN [ret |-> FALSE, d |-> d, log |-> [log EXCEPT !.attempts = @ + 1]]
    ELSE LET r == ResolveFunctions(e.libSymbols)
             l1 == [log EXCEPT !.attempts = @ + 1, !.loads = @ + 1]
         IN  IF ~r.ok
             THEN [ret |-> FALSE, d |-> [d EXCEPT !.fn = r.fn],
                   log |-> [l1 EXCEPT !.unloads = @ + 1]]
             ELSE IF ~e.initOk
             THEN [ret |-> FALSE, d |-> [d EXCEPT !.fn = r.fn],
                   log |-> [l1 EXCEPT !.inits = @ + 1, !.unloads = @ + 1]]
             ELSE [ret |-> TRUE,
                   d |-> [initialized |-> TRUE, loaded |-> TRUE, fn |-> r.fn],
                   log |-> [l1 EXCEPT !.inits = @ + 1]]

\* NvidiaBackendPrivate::cleanup: unload when loaded, null every pointer.
Cleanup(d, log) ==
    [d |-> [d EXCEPT !.loaded = FALSE, !.fn = {}],
     log |-> IF d.loaded THEN [log EXCEPT !.unloads = @ + 1] ELSE log]

\* Mutant of ShutdownNvml: the library's shutdown is called, cleanup is not.
ShutdownNvmlNoCleanup(d, log) ==
    IF d.initialized /\ "nvmlShutdown" \in d.fn
    THEN [d |-> [d EXCEPT !.initialized = FALSE], log |-> [log EXCEPT !.shutdowns = @ + 1]]
    ELSE [d |-> d, log |-> log]

\* GpuBackendNvidia::shutdownNvml.
ShutdownNvml(d, log) ==
    IF d.initialized /\ "nvmlShutdown" \in d.fn
    THEN Cleanup([d EXCEPT !.initialized = FALSE], [log EXCEPT !.shutdowns = @ + 1])
    ELSE Cleanup(d, log)

\* Mutant of IsNvmlAvailable: the backend claims NVML whatever its state.
IsNvmlAvailableAlways(d) == TRUE

\* GpuBackendNvidia::isNvmlAvailable.
IsNvmlAvailable(d) == d.initialized

\* GpuBackendNvidia::supports.
NvidiaSupports(d, device) == device.vendor = "Nvidia" /\ IsNvmlAvailable(d)

\* What NVML answers during one readStats: whether the handle lookup by PCI
\* bus id succeeds, and the result of each query.
NvmlAnswers(utils, bytes, temps, clocks) ==
    [handleOk : BOOLEAN, util : Maybe(utils), memOk : BOOLEAN,
     total : bytes, used : bytes, temp : Maybe(temps),
     gclk : Maybe(clocks), mclk : Maybe(clocks)]

\* The `return` expression of GpuBackendNvidia::readStats.
NvidiaHasData(out) ==
    \/ out.utilizationPercent >= 0
    \/ out.memoryTotalBytes > 0
    \/ out.temperatureC >= 0
    \/ out.coreClockkHz > 0
    \/ out.memoryClockkHz > 0

\* The part of readStats after the handle lookup, given the results gclk and
\* mclk of the two nvmlDeviceGetClockInfo calls.
NvidiaFill(out, a, gclk, mclk) ==
    LET o1 == IF a.util.ok THEN [out EXCEPT !.utilizationPercent = a.util.v] ELSE out
        o2 == IF a.memOk THEN [o1 EXCEPT !.memoryTotalBytes = a.total,
                                         !.memoryUsedBytes = a.used]
              ELSE o1
        o3 == IF a.temp.ok THEN [o2 EXCEPT !.temperatureC = a.temp.v] ELSE o2
        o4 == IF gclk.ok THEN [o3 EXCEPT !.coreClockkHz = gclk.v * 1000] ELSE o3
        o5 == IF mclk.ok THEN [o4 EXCEPT !.memoryClockkHz = mclk.v * 1000] ELSE o4
    IN  o5

\* The NVML entry points a readStats that got its device handle invokes.
ReadStatsEntryPoints ==
    {"nvmlDeviceGetHandleByPciBusId_v2", "nvmlDeviceGetUtilizationRates",
     "nvmlDeviceGetMemoryInfo", "nvmlDeviceGetTemperature", "nvmlDeviceGetClockInfo"}

\* GpuBackendNvidia::readStats on a default GpuStats: the set of outcomes the
\* build can produce.  readStats calls d->nvmlDeviceGetClockInfo without a null
\* check; when that optional pointer is null the call is undefined behaviour:
\* the process may crash, or the call may appear to return anything.
\* nullCalls is the set of null function pointers the call invoked and calls
\* the set of NVML entry points it invoked (history).
NvidiaReadStats(d, device, a, clocks) ==
    IF ~IsNvmlAvailable(d)
    THEN {[ret |-> "false", out |-> DefaultGpuStats, obtained |-> FALSE, nullCalls |-> {},
           calls |-> {}]}
    ELSE IF ~a.handleOk
    THEN {[ret |-> "false", out |-> DefaultGpuStats, obtained |-> FALSE, nullCalls |-> {},
           calls |-> {"nvmlDeviceGetHandleByPciBusId_v2"}]}
    ELSE IF "nvmlDeviceGetClockInfo" \in d.fn
    THEN LET out == NvidiaFill(DefaultGpuStats, a, a.gclk, a.mclk)
         IN  {[ret |-> IF NvidiaHasData(out) THEN "true" ELSE "false",
               out |-> out,
               obtained |-> a.util.ok \/ a.memOk \/ a.temp.ok \/ a.gclk.ok \/ a.mclk.ok,
               nullCalls |-> {}, calls |-> ReadStatsEntryPoints]}
    ELSE {[ret |-> "crash", out |-> DefaultGpuStats, obtained |-> FALSE,
           nullCalls |-> {"nvmlDeviceGetClockInfo"}, calls |-> ReadStatsEntryPoints]}
         \cup
         {[ret |-> IF NvidiaHasData(NvidiaFill(DefaultGpuStats, a, g, m))
                   THEN "true" ELSE "false",
           out |-> NvidiaFill(DefaultGpuStats, a, g, m),
           obtained |-> a.util.ok \/ a.memOk \/ a.temp.ok,
           nullCalls |-> {"nvmlDeviceGetClockInfo"}, calls |-> ReadStatsEntryPoints]
          : g \in Maybe(clocks), m \in Maybe(clocks)}

(***************************************************************************)
(* AMD backend: gpu_backend_amd.cpp                                        *)
(***************************************************************************)

\* GpuBackendAmd::supports.
AmdSupports(device) == device.vendor = "AMD"

\* One line "<index>: <mhz><unit>[ *]" of a pp_dpm_sclk / pp_dpm_mclk file.
DpmLines(mhzs, units) == [mhz : mhzs, unit : units, star : BOOLEAN]

\* A DPM file: missing, or its lines.
NoDpmFile == [exists |-> FALSE, lines |-> <<>>]
DpmFile(lines) == [exists |-> TRUE, lines |-> lines]

\* GpuBackendAmd::readFirstLine on a DPM file: QTextStream::readLine returns
\* the first line only; a missing or empty file fails.
AmdReadFirstLine(file) ==
    IF file.exists /\ Len(file.lines) > 0
    THEN [ok |-> TRUE, content |-> <<file.lines[1]>>]
    ELSE [ok |-> FALSE, content |-> <<>>]

\* The regular expression (\d+)\s*[MG]hz of parseCurrentClockFromDpm, which is
\* case sensitive.
DpmUnitMatches(unit) == unit \in {"Mhz", "Ghz"}

\* Mutant of ParseCurrentClockFromDpm: only the first line is looked at.
ParseFirstLineOnly(lines) ==
    IF lines # <<>> /\ lines[1].star /\ DpmUnitMatches(lines[1].unit)
    THEN lines[1].mhz
    ELSE -1

\* GpuBackendAmd::parseCurrentClockFromDpm on the content split at '\n':
\* the number of the first line that carries '*' and matches, else -1.
RECURSIVE ParseCurrentClockFromDpm(_)
ParseCurrentClockFromDpm(lines) ==
    IF lines = <<>> THEN -1
    ELSE IF lines[1].star /\ DpmUnitMatches(lines[1].unit) THEN lines[1].mhz
    ELSE ParseCurrentClockFromDpm(Tail(lines))

\* GpuBackendAmd::readClockInfo: memoryClock and graphicsClock start at the
\* caller's -1.
AmdReadClockInfo(mclkFile, sclkFile) ==
    LET m == AmdReadFirstLine(mclkFile)
        g == AmdReadFirstLine(sclkFile)
        memoryClock == IF m.ok THEN ParseCurrentClockFromDpm(m.content) ELSE -1
        graphicsClock == IF g.ok THEN ParseCurrentClockFromDpm(g.content) ELSE -1
    IN  [ret |-> (m.ok /\ memoryClock > 0) \/ (g.ok /\ graphicsClock > 0),
         memoryClock |-> memoryClock, graphicsClock |-> graphicsClock]

\* GpuBackendAmd::readGpuUtilization, busy being the integer read from
\* gpu_busy_percent.
AmdReadGpuUtilization(busy) ==
    IF busy.ok THEN [ret |-> busy.v >= 0, utilization |-> busy.v]
    ELSE [ret |-> FALSE, utilization |-> -1]

\* GpuBackendAmd::readVramInfo.
AmdReadVramInfo(vramUsed, vramTotal) ==
    [ret |-> vramUsed.ok /\ vramTotal.ok,
     used |-> IF vramUsed.ok THEN vramUsed.v ELSE 0,
     total |-> IF vramTotal.ok THEN vramTotal.v ELSE 0]

\* GpuBackendAmd::readTemperature, milliC being the first temp*_input of the
\* hwmon directory that reads as an integer.
AmdReadTemperature(milliC) ==
    IF milliC.ok THEN [ret |-> TRUE, temperatureC |-> TruncDiv(milliC.v, 1000)]
    ELSE [ret |-> FALSE, temperatureC |-> -1]

\* What sysfs holds for an AMD device during one readStats.
AmdSysfs(busys, bytes, milliCs, dpmFiles) ==
    [gpu_busy_percent : Maybe(busys), mem_info_vram_used : Maybe(bytes),
     mem_info_vram_total : Maybe(bytes), temp_input : Maybe(milliCs),
     pp_dpm_mclk : dpmFiles, pp_dpm_sclk : dpmFiles]

\* GpuBackendAmd::readStats on a default GpuStats.
AmdReadStats(device, fs) ==
    LET u == AmdReadGpuUtilization(fs.gpu_busy_percent)
        v == AmdReadVramInfo(fs.mem_info_vram_used, fs.mem_info_vram_total)
        t == AmdReadTemperature(fs.temp_input)
        c == AmdReadClockInfo(fs.pp_dpm_mclk, fs.pp_dpm_sclk)
        o1 == IF u.ret THEN [DefaultGpuStats EXCEPT !.utilizationPercent = u.utilization]
              ELSE DefaultGpuStats
        o2 == IF v.ret THEN [o1 EXCEPT !.memoryUsedBytes = v.used,
                                       !.memoryTotalBytes = v.total]
              ELSE o1
        o3 == IF t.ret THEN [o2 EXCEPT !.temperatureC = t.temperatureC] ELSE o2
        o4 == IF c.ret /\ c.memoryClock > 0
              THEN [o3 EXCEPT !.memoryClockkHz = c.memoryClock * 1000] ELSE o3
        o5 == IF c.ret /\ c.graphicsClock > 0
              THEN [o4 EXCEPT !.coreClockkHz = c.graphicsClock * 1000] ELSE o4
        hasData == u.ret \/ v.ret \/ t.ret
                   \/ (c.ret /\ (c.memoryClock > 0 \/ c.graphicsClock > 0))
    IN  [ret |-> IF hasData THEN "true" ELSE "false", out |-> o5,
         obtained |-> \/ (fs.gpu_busy_percent.ok /\ fs.gpu_busy_percent.v >= 0)
                      \/ (fs.mem_info_vram_used.ok /\ fs.mem_info_vram_total.ok)
                      \/ fs.temp_input.ok
                      \/ c.memoryClock > 0 \/ c.graphicsClock > 0]

(***************************************************************************)
(* Intel backend: gpu_backend_intel.cpp                                    *)
(***************************************************************************)

\* GpuBackendIntel::supports.
IntelSupports(device) == device.vendor = "Intel"

\* The names of the engine directories of the model.
EngineNames == {"rcs0", "vcs0"}

\* One directory <devicePath>/engine/<name> with its busy_percent and busy_ns
\* files.
EngineDirs(percents, nanos) ==
    [name : EngineNames, busy_percent : Maybe(percents), busy_ns : Maybe(nanos)]

\* A default IntelGpuStats::EngineStats with the given name.
NewEngineStats(name) == [name |-> name, utilizationPercent |-> -1, busyNs |-> 0]

\* GpuBackendIntel::readSingleEngineStats on an engine directory: the return
\* value and the updated engine.
ReadSingleEngineStats(dir, engine) ==
    LET e1 == IF dir.busy_percent.ok /\ dir.busy_percent.v >= 0
              THEN [engine EXCEPT !.utilizationPercent = dir.busy_percent.v]
              ELSE engine
        e2 == IF dir.busy_ns.ok THEN [e1 EXCEPT !.busyNs = dir.busy_ns.v] ELSE e1
    IN  [ret |-> (dir.busy_percent.ok /\ dir.busy_percent.v >= 0) \/ dir.busy_ns.ok,
         engine |-> e2]

\* An engine directory that does not exist: every read in it fails.
MissingEngineDir(name) == [name |-> name, busy_percent |-> Absent, busy_ns |-> Absent]

\* The directory of the engine called name among the directory entries.
EngineDirOf(entries, name) ==
    IF \E i \in 1..Len(entries) : entries[i].name = name
    THEN entries[CHOOSE i \in 1..Len(entries) :
                    /\ entries[i].name = name
                    /\ \A j \in 1..(i - 1) : entries[j].name # name]
    ELSE MissingEngineDir(name)

\* GpuBackendIntel::readEngineDirectory: the engines of the entries whose
\* readSingleEngineStats succeeds, in listing order.
RECURSIVE ReadEngineDirectory(_)
ReadEngineDirectory(entries) ==
    IF entries = <<>> THEN <<>>
    ELSE LET r == ReadSingleEngineStats(entries[1], NewEngineStats(entries[1].name))
         IN  (IF r.ret THEN <<r.engine>> ELSE <<>>) \o ReadEngineDirectory(Tail(entries))

\* Whether reading the cached engines in the current directory entries
\* delivers a busy_percent for at least one of them.
AnyBusyPercent(dirs) ==
    \E i \in 1..Len(dirs) : dirs[i].busy_percent.ok /\ dirs[i].busy_percent.v >= 0

\* GpuBackendIntel::readEngineUtilization: served from m_engineCache when the
\* path is cached (each cached engine is re-read into a copy), else discovered
\* and cached.  engineDir.exists is whether <devicePath>/engine exists.  fresh
\* tells whether a busy_percent of a returned engine was read during the call.
ReadEngineUtilization(cache, path, engineDir) ==
    LET entries == IF engineDir.exists THEN engineDir.entries ELSE <<>>
    IN  IF path \in DOMAIN cache
        THEN LET dirs == [i \in 1..Len(cache[path]) |->
                             EngineDirOf(entries, cache[path][i].name)]
             IN  [ret |-> cache[path] # <<>>,
                  engines |-> [i \in 1..Len(cache[path]) |->
                                  ReadSingleEngineStats(dirs[i], cache[path][i]).engine],
                  cache |-> cache,
                  fresh |-> AnyBusyPercent(dirs)]
        ELSE LET discovered == ReadEngineDirectory(entries)
             IN  IF discovered # <<>>
                 THEN [ret |-> TRUE, engines |-> discovered,
                       cache |-> cache @@ (path :> discovered),
                       fresh |-> AnyBusyPercent(entries)]
                 ELSE [ret |-> FALSE, engines |-> <<>>, cache |-> cache,
                       fresh |-> FALSE]

\* Sum and count of the engines with a valid utilization.
RECURSIVE SumValid(_)
SumValid(engines) ==
    IF engines = <<>> THEN [sum |-> 0, n |-> 0]
    ELSE LET r == SumValid(Tail(engines))
         IN  IF engines[1].utilizationPercent >= 0
             THEN [sum |-> r.sum + engines[1].utilizationPercent, n |-> r.n + 1]
             ELSE r

\* Mutant of CalculateAverageUtilization: the sum of the valid values is
\* divided by the number of all engines.
CalculateAverageOverAllEngines(engines) ==
    IF engines = <<>> THEN -1
    ELSE LET r == SumValid(engines)
         IN  IF r.n = 0 THEN -1 ELSE r.sum \div Len(engines)

\* GpuBackendIntel::calculateAverageUtilization.
CalculateAverageUtilization(engines) ==
    IF engines = <<>> THEN -1
    ELSE LET r == SumValid(engines)
         IN  IF r.n = 0 THEN -1 ELSE r.sum \div r.n

\* What sysfs holds for an Intel device during one readStats.
IntelSysfs(engineListings, milliCs, mhzs) ==
    [engine : engineListings, temp_input : Maybe(milliCs), gt_cur_freq_mhz : Maybe(mhzs)]

\* GpuBackendIntel::readStats on a default GpuStats: the result and the new
\* engine cache.
IntelReadStats(cache, device, fs) ==
    LET e == ReadEngineUtilization(cache, device.devicePath, fs.engine)
        avgUtilization == IF e.ret THEN CalculateAverageUtilization(e.engines) ELSE -1
        o1 == IF e.ret /\ avgUtilization >= 0
              THEN [DefaultGpuStats EXCEPT !.utilizationPercent = avgUtilization]
              ELSE DefaultGpuStats
        o2 == IF fs.temp_input.ok
              THEN [o1 EXCEPT !.temperatureC = TruncDiv(fs.temp_input.v, 1000)] ELSE o1
        o3 == IF fs.gt_cur_freq_mhz.ok /\ fs.gt_cur_freq_mhz.v > 0
              THEN [o2 EXCEPT !.coreClockkHz = fs.gt_cur_freq_mhz.v * 1000] ELSE o2
        hasData == (e.ret /\ avgUtilization >= 0) \/ fs.temp_input.ok
                   \/ (fs.gt_cur_freq_mhz.ok /\ fs.gt_cur_freq_mhz.v > 0)
    IN  [ret |-> IF hasData THEN "true" ELSE "false",
         out |-> [o3 EXCEPT !.memoryUsedBytes = 0, !.memoryTotalBytes = 0],
         cache |-> e.cache,
         obtained |-> \/ e.fresh
                      \/ fs.temp_input.ok
                      \/ (fs.gt_cur_freq_mhz.ok /\ fs.gt_cur_freq_mhz.v > 0)]

(***************************************************************************)
(* GpuService: gpu_backend.cpp                                             *)
(***************************************************************************)

\* Mutant of Backends: the backends registered in another order.
BackendsAmdFirst == <<"AMD", "Nvidia", "Intel">>

\* m_backends as the GpuService constructor fills it.
Backends == <<"Nvidia", "AMD", "Intel">>

\* b->supports(device) of the wrapper classes.
Supports(b, d, device) ==
    CASE b = "Nvidia" -> NvidiaSupports(d, device)
      [] b = "AMD" -> AmdSupports(device)
      [] b = "Intel" -> IntelSupports(device)

\* The loop of GpuService::readStatsFor from index i on: the backends asked
\* for supports, in order, and the backend whose readStats is called.
RECURSIVE Dispatch(_, _, _)
Dispatch(i, d, device) ==
    IF i > Len(Backends) THEN [asked |-> <<>>, reader |-> "none"]
    ELSE IF Supports(Backends[i], d, device)
    THEN [asked |-> <<Backends[i]>>, reader |-> Backends[i]]
    ELSE LET r == Dispatch(i + 1, d, device)
         IN  [asked |-> <<Backends[i]>> \o r.asked, reader |-> r.reader]

\* What the data sources hold during one readStatsFor call.
Sources(nvml, amd, intel) == [nvml : nvml, amd : amd, intel : intel]

\* GpuService::readStatsFor on a default GpuStats: the outcomes the build can
\* produce, each with the backends asked and the backends read (history).
ReadStatsFor(d, cache, device, src, clocks) ==
    LET r == Dispatch(1, d, device)
    IN  CASE r.reader = "Nvidia" ->
               {[ret |-> o.ret, out |-> o.out, obtained |-> o.obtained, cache |-> cache,
                 asked |-> r.asked, readers |-> <<"Nvidia">>, readerRet |-> o.ret,
                 nullCalls |-> o.nullCalls, nvmlCalls |-> o.calls]
                : o \in NvidiaReadStats(d, device, src.nvml, clocks)}
          [] r.reader = "AMD" ->
               LET o == AmdReadStats(device, src.amd)
               IN  {[ret |-> o.ret, out |-> o.out, obtained |-> o.obtained,
                     cache |-> cache, asked |-> r.asked, readers |-> <<"AMD">>,
                     readerRet |-> o.ret, nullCalls |-> {},
                     nvmlCalls |-> {}]}
          [] r.reader = "Intel" ->
               LET o == IntelReadStats(cache, device, src.intel)
               IN  {[ret |-> o.ret, out |-> o.out, obtained |-> o.obtained,
                     cache |-> o.cache, asked |-> r.asked, readers |-> <<"Intel">>,
                     readerRet |-> o.ret, nullCalls |-> {},
                     nvmlCalls |-> {}]}
          [] r.reader = "none" ->
               {[ret |-> "false", out |-> DefaultGpuStats, obtained |-> FALSE,
                 cache |-> cache, asked |-> r.asked, readers |-> <<>>,
                 readerRet |-> "false", nullCalls |-> {}, nvmlCalls |-> {}]}

\* The environments of the model: DSM_DISABLE_NVML set or not; the NVML
\* library missing, or present with at most MaxMissing of the sampled symbols
\* not exported and nvmlInit_v2 succeeding or not.
SampledSymbols == RequiredSymbols \cup {"nvmlDeviceGetClockInfo", "nvmlDeviceGetPowerUsage"}

Environments ==
    {[disableNvml |-> dis, libLoadable |-> FALSE, libSymbols |-> {}, initOk |-> FALSE]
       : dis \in BOOLEAN}
    \cup
    {[disableNvml |-> dis, libLoadable |-> TRUE, libSymbols |-> AllSymbols \ miss,
      initOk |-> ok]
       : dis \in BOOLEAN, ok \in BOOLEAN,
         miss \in {m \in SUBSET SampledSymbols : Cardinality(m) <= MaxMissing}}

\* Sources that answer nothing: every library call and every file read fails.
NoNvmlAnswer ==
    [handleOk |-> FALSE, util |-> Absent, memOk |-> FALSE, total |-> 0, used |-> 0,
     temp |-> Absent, gclk |-> Absent, mclk |-> Absent]
NoAmdSysfs ==
    [gpu_busy_percent |-> Absent, mem_info_vram_used |-> Absent,
     mem_info_vram_total |-> Absent, temp_input |-> Absent,
     pp_dpm_mclk |-> NoDpmFile, pp_dpm_sclk |-> NoDpmFile]
NoIntelSysfs ==
    [engine |-> [exists |-> FALSE, entries |-> <<>>], temp_input |-> Absent,
     gt_cur_freq_mhz |-> Absent]

\* No readStatsFor call has been made.
NoRead ==
    [device |-> [vendor |-> "Unknown", devicePath |-> 0], called |-> FALSE,
     ret |-> "false", out |-> DefaultGpuStats, obtained |-> FALSE,
     asked |-> <<>>, readers |-> <<>>, readerRet |-> "false",
     available |-> FALSE, cached |-> FALSE, nullCalls |-> {}, nvmlCalls |-> {},
     src |-> [nvml |-> NoNvmlAnswer, amd |-> NoAmdSysfs, intel |-> NoIntelSysfs]]

\* No devices() call has been made on the service.
NoDevicesCall ==
    [calls |-> 0, enumerations |-> 0, first |-> <<>>, last |-> <<>>]

\* The state before any GpuService exists, in environment e.
GpuInitIn(e) ==
    /\ env = e
    /\ svcState = "none"
    /\ d_ptr = NewNvidiaBackendPrivate
    /\ m_engineCache = [p \in {} |-> <<>>]
    /\ nvmlLog = EmptyNvmlLog
    /\ lastRead = NoRead
    /\ constructions = 0
    /\ m_devices = <<>>
    /\ devicesLog = NoDevicesCall

\* GpuService::GpuService: the three backends are constructed; the Nvidia one
\* runs initializeNvml.
ConstructService ==
    /\ svcState = "none"
    /\ constructions < MaxConstructions
    /\ LET r == InitializeNvml(NewNvidiaBackendPrivate, env, nvmlLog)
       IN  /\ d_ptr' = r.d
           /\ nvmlLog' = r.log
    /\ svcState' = "alive"
    /\ m_engineCache' = [p \in {} |-> <<>>]
    /\ constructions' = constructions + 1
    /\ m_devices' = <<>>
    /\ devicesLog' = NoDevicesCall
    /\ UNCHANGED <<env, lastRead>>

\* The GpuService is destroyed: ~GpuBackendNvidia runs shutdownNvml.
DestroyService ==
    /\ svcState = "alive"
    /\ LET r == ShutdownNvml(d_ptr, nvmlLog)
       IN  /\ d_ptr' = r.d
           /\ nvmlLog' = r.log
    /\ svcState' = "none"
    /\ m_engineCache' = [p \in {} |-> <<>>]
    /\ m_devices' = <<>>
    /\ UNCHANGED <<env, lastRead, constructions, devicesLog>>

\* One call of readStatsFor(device, stats) on a fresh GpuStats, as every caller
\* makes it, the data sources holding src (kept in lastRead as history).  A
\* crash ends the process.
DoReadStatsFor(devices, sources, clocks) ==
    /\ svcState = "alive"
    /\ \E device \in devices, src \in sources :
         \E o \in ReadStatsFor(d_ptr, m_engineCache, device, src, clocks) :
            /\ lastRead' = [device |-> device, called |-> TRUE, ret |-> o.ret,
                            out |-> o.out, obtained |-> o.obtained,
                            asked |-> o.asked, readers |-> o.readers,
                            readerRet |-> o.readerRet,
                            available |-> d_ptr.initialized,
                            cached |-> device.devicePath \in DOMAIN m_engineCache,
                            nullCalls |-> o.nullCalls, nvmlCalls |-> o.nvmlCalls,
                            src |-> src]
            /\ m_engineCache' = o.cache
            /\ svcState' = IF o.ret = "crash" THEN "crashed" ELSE svcState
    /\ UNCHANGED <<env, d_ptr, nvmlLog, constructions, m_devices, devicesLog>>

(***************************************************************************)
(* GpuReader::enumerate: gpu.cpp                                           *)
(***************************************************************************)

\* Bound of the enumeration model: entries of /sys/class/drm.
MaxEntries == 2

\* Strings whose characters the code inspects are sequences of characters.
Digits == {"0", "1", "2", "3", "4", "5", "6", "7", "8", "9"}
Whitespace == {" ", "\t", "\n"}

\* QChar::toLower on the letters that occur in the model.
ToLowerChar(c) ==
    CASE c = "C" -> "c" [] c = "D" -> "d" [] c = "E" -> "e" [] c = "X" -> "x"
      [] c = "H" -> "h" [] c = "M" -> "m" [] c = "I" -> "i" [] c = "A" -> "a"
      [] OTHER -> c

\* QString::toLower.
ToLower(s) == [i \in 1..Len(s) |-> ToLowerChar(s[i])]

\* QString::trimmed: leading and trailing whitespace removed.
RECURSIVE TrimLeft(_)
TrimLeft(s) ==
    IF s # <<>> /\ s[1] \in Whitespace THEN TrimLeft(Tail(s)) ELSE s

RECURSIVE TrimRight(_)
TrimRight(s) ==
    IF s # <<>> /\ s[Len(s)] \in Whitespace
    THEN TrimRight(SubSeq(s, 1, Len(s) - 1)) ELSE s

Trimmed(s) == TrimRight(TrimLeft(s))

\* The name filter "card*" of entryList; QDir matches name filters without
\* regard to case unless QDir::CaseSensitive is given.
MatchesCardGlob(name) ==
    Len(name) >= 4 /\ ToLower(SubSeq(name, 1, 4)) = <<"c", "a", "r", "d">>

\* Mutant of OnlyCardDigits: anything after the prefix is accepted.
OnlyCardPrefix(name) ==
    Len(name) > 4 /\ SubSeq(name, 1, 4) = <<"c", "a", "r", "d">>

\* QRegularExpression("^card\\d+$").match(name).hasMatch(); '$' also matches
\* before a final newline.
OnlyCardDigits(name) ==
    LET body == IF name # <<>> /\ name[Len(name)] = "\n"
                THEN SubSeq(name, 1, Len(name) - 1) ELSE name
    IN  /\ Len(body) > 4
        /\ SubSeq(body, 1, 4) = <<"c", "a", "r", "d">>
        /\ \A i \in 5..Len(body) : body[i] \in Digits

\* A file read by readFirstLine: missing or unreadable, or its first line as
\* QFile::readLine returns it (the newline included; empty for an empty file).
NoFile == [exists |-> FALSE, line |-> <<>>]
FileWithLine(line) == [exists |-> TRUE, line |-> line]

\* GpuReader::readFirstLine.
ReadFirstLine(file) ==
    IF ~file.exists THEN [ok |-> FALSE, out |-> <<>>]
    ELSE IF file.line = <<>> THEN [ok |-> FALSE, out |-> <<>>]
    ELSE [ok |-> Trimmed(file.line) # <<>>, out |-> Trimmed(file.line)]

\* GpuReader::detectVendor on the device/vendor file.
DetectVendor(vendorFile) ==
    LET r == ReadFirstLine(vendorFile)
        ven == ToLower(Trimmed(r.out))
    IN  IF ~r.ok THEN "Unknown"
        ELSE IF ven = <<"0", "x", "1", "0", "d", "e">> THEN "Nvidia"
        ELSE IF ven = <<"0", "x", "1", "0", "0", "2">>
                \/ ven = <<"0", "x", "1", "0", "2", "2">> THEN "AMD"
        ELSE IF ven = <<"0", "x", "8", "0", "8", "6">> THEN "Intel"
        ELSE "Unknown"

\* GpuReader::enumerate on the entries of /sys/class/drm in listing order:
\* the devices pushed, each with its card name and vendor.
RECURSIVE Enumerate(_)
Enumerate(entries) ==
    IF entries = <<>> THEN <<>>
    ELSE LET e == entries[1]
             listed == e.isDir /\ MatchesCardGlob(e.name)
             vendor == DetectVendor(e.vendor)
         IN  (IF /\ listed
                 /\ OnlyCardDigits(e.name)
                 /\ e.device # "none"
                 /\ vendor # "Unknown"
              THEN <<[card |-> e.name, vendor |-> vendor]>>
              ELSE <<>>) \o Enumerate(Tail(entries))

\* Entry names of the model, in the order the directory lists them.
DrmNames ==
    <<<<"C", "a", "r", "d", "0">>,
      <<"c", "a", "r", "d">>,
      <<"c", "a", "r", "d", "0">>,
      <<"c", "a", "r", "d", "0", "-", "H", "D", "M", "I", "-", "A", "-", "1">>,
      <<"c", "a", "r", "d", "1">>,
      <<"c", "a", "r", "d", "1", "2">>,
      <<"c", "a", "r", "d", "x">>,
      <<"r", "e", "n", "d", "e", "r", "D", "1", "2", "8">>>>

\* First lines of device/vendor files of the model.
VendorLines ==
    {<<"0", "x", "1", "0", "d", "e", "\n">>,
     <<"0", "x", "1", "0", "0", "2", "\n">>,
     <<"0", "x", "1", "0", "2", "2", "\n">>,
     <<"0", "x", "8", "0", "8", "6", "\n">>,
     <<"0", "X", "1", "0", "D", "E", "\n">>,
     <<" ", "0", "x", "8", "0", "8", "6", " ", "\n">>,
     <<"0", "x", "1", "2", "3", "4", "\n">>,
     <<"1", "0", "d", "e", "\n">>,
     <<"\n">>,
     <<>>}

\* The usual vendor file of the entries whose name is what varies.
NvidiaVendorFile == FileWithLine(<<"0", "x", "1", "0", "d", "e", "\n">>)

\* The entries of the model.  device tells what <entry>/device is: "none",
\* a directory ("dir") or a plain file ("file"); only a directory can hold a
\* vendor file, and only a directory entry can hold a device.
DrmEntries ==
    {[name |-> DrmNames[i], isDir |-> TRUE, device |-> "dir", vendor |-> NvidiaVendorFile]
       : i \in 1..Len(DrmNames)}
    \cup
    {[name |-> n, isDir |-> TRUE, device |-> "dir", vendor |-> FileWithLine(l)]
       : n \in {<<"c", "a", "r", "d", "0">>, <<"c", "a", "r", "d", "1">>}, l \in VendorLines}
    \cup
    {[name |-> n, isDir |-> TRUE, device |-> dv, vendor |-> NoFile]
       : n \in {<<"c", "a", "r", "d", "0">>, <<"c", "a", "r", "d", "1">>}, dv \in {"none", "dir", "file"}}
    \cup
    {[name |-> <<"c", "a", "r", "d", "0">>, isDir |-> FALSE, device |-> "none", vendor |-> NoFile]}

\* The position of an entry's name in the listing order.
NameIndex(name) == CHOOSE i \in 1..Len(DrmNames) : DrmNames[i] = name

\* The directory listings of the model: at most MaxEntries entries with
\* distinct names, in listing order.
DrmListings ==
    UNION {{l \in [1..n -> DrmEntries] :
               \A i \in 1..(n - 1) : NameIndex(l[i].name) < NameIndex(l[i + 1].name)}
           : n \in 0..MaxEntries}

NoEnumerate == [called |-> FALSE, listing |-> <<>>, devices |-> <<>>]

\* No enumerate call has been made; /sys/class/drm holds the listing l.
EnumInitIn(l) ==
    /\ drm = l
    /\ enumerated = NoEnumerate

\* One call of GpuReader::enumerate().
DoEnumerate ==
    /\ enumerated' = [called |-> TRUE, listing |-> drm, devices |-> Enumerate(drm)]
    /\ UNCHANGED drm

\* A card is removed from the system: its entry leaves /sys/class/drm.
Unplug ==
    /\ \E i \in 1..Len(drm) :
          drm' = SubSeq(drm, 1, i - 1) \o SubSeq(drm, i + 1, Len(drm))
    /\ UNCHANGED enumerated

(***************************************************************************)
(* GpuService::devices: gpu_backend.cpp                                    *)
(***************************************************************************)

\* Bound: devices() calls followed on one service.
MaxDevicesCalls == 3

\* GpuService::devices() with m_devices = devices while /sys/class/drm holds
\* listing: the new m_devices (which is returned) and whether
\* GpuReader::enumerate was called.
Devices(devices, listing) ==
    IF devices = <<>>
    THEN [devices |-> Enumerate(listing), enumerated |-> TRUE]
    ELSE [devices |-> devices, enumerated |-> FALSE]

\* One call of devices() on the live service.
DoDevices ==
    /\ svcState = "alive"
    /\ devicesLog.calls < MaxDevicesCalls
    /\ LET r == Devices(m_devices, drm)
       IN  /\ m_devices' = r.devices
           /\ devicesLog' =
                 [calls |-> devicesLog.calls + 1,
                  enumerations |-> devicesLog.enumerations + (IF r.enumerated THEN 1 ELSE 0),
                  first |-> IF devicesLog.calls = 0 THEN r.devices ELSE devicesLog.first,
                  last |-> r.devices]
    /\ UNCHANGED <<env, svcState, d_ptr, m_engineCache, nvmlLog, lastRead, constructions>>

\* The cards that come and go in the hotplug model: an Nvidia card, an AMD
\* card and a connector node.
HotplugEntries ==
    {[name |-> <<"c", "a", "r", "d", "0">>, isDir |-> TRUE, device |-> "dir",
      vendor |-> FileWithLine(<<"0", "x", "1", "0", "d", "e", "\n">>)],
     [name |-> <<"c", "a", "r", "d", "1">>, isDir |-> TRUE, device |-> "dir",
      vendor |-> FileWithLine(<<"0", "x", "1", "0", "0", "2", "\n">>)],
     [name |-> <<"c", "a", "r", "d", "0", "-", "H", "D", "M", "I", "-", "A", "-", "1">>,
      isDir |-> TRUE, device |-> "none", vendor |-> NoFile]}

\* The listings made of hotplug entries.
HotplugListings == {l \in DrmListings : \A i \in 1..Len(l) : l[i] \in HotplugEntries}

\* A card is added to the system: its entry appears in /sys/class/drm.
Plug ==
    /\ \E l \in HotplugListings :
          /\ Len(l) = Len(drm) + 1
          /\ \E i \in 1..Len(l) : drm = SubSeq(l, 1, i - 1) \o SubSeq(l, i + 1, Len(l))
          /\ drm' = l
    /\ UNCHANGED enumerated

(***************************************************************************)
(* GpuReader::detectName: gpu.cpp                                          *)
(***************************************************************************)

\* Texts the code searches are sequences of pieces: the characters and
\* substrings it looks for (':', whitespace, " (rev ", the vendor prefixes)
\* are pieces of their own, the text between them is carried in whole words.

\* QString::indexOf(piece, from): the 0-based position of the first
\* occurrence at or after from, -1 if there is none.
IndexOf(s, piece, from) ==
    LET hits == {i \in (from + 1)..Len(s) : s[i] = piece}
    IN  IF hits = {} THEN -1 ELSE (CHOOSE i \in hits : \A j \in hits : i <= j) - 1

\* QString::mid(pos) and QString::left(n).
Mid(s, pos) == SubSeq(s, pos + 1, Len(s))
Left(s, n) == SubSeq(s, 1, n)

\* QString::replace(prefix + " ", with): every occurrence of the piece prefix
\* followed by a blank is replaced by the pieces with.
RECURSIVE ReplacePrefix(_, _, _)
ReplacePrefix(s, prefix, with) ==
    IF s = <<>> THEN <<>>
    ELSE IF Len(s) >= 2 /\ s[1] = prefix /\ s[2] = " "
    THEN with \o ReplacePrefix(SubSeq(s, 3, Len(s)), prefix, with)
    ELSE <<s[1]>> \o ReplacePrefix(Tail(s), prefix, with)

\* QString::contains(piece).
Contains(s, piece) == \E i \in 1..Len(s) : s[i] = piece

\* Mutant of LspciProductInfo: the revision suffix is kept.
LspciProductInfoKeepRev(output) ==
    LET firstColon == IndexOf(output, ":", 0)
        secondColon == IF firstColon > 0 THEN IndexOf(output, ":", firstColon + 1) ELSE -1
        info == Trimmed(Mid(output, secondColon + 1))
    IN  IF firstColon > 0 /\ secondColon > 0 /\ info # <<>>
        THEN [found |-> TRUE, name |-> info]
        ELSE [found |-> FALSE, name |-> <<>>]

\* The parsing of the lspci output in detectName: the text after the second
\* colon, without " (rev ..." and with the vendor prefix normalised, returned
\* trimmed when it is not empty.
LspciProductInfo(output) ==
    LET firstColon == IndexOf(output, ":", 0)
        secondColon == IF firstColon > 0 THEN IndexOf(output, ":", firstColon + 1) ELSE -1
        info == Trimmed(Mid(output, secondColon + 1))
        revIndex == IndexOf(info, " (rev ", 0)
        cut == IF revIndex > 0 THEN Left(info, revIndex) ELSE info
        clean == IF Contains(cut, "NVIDIA Corporation")
                 THEN ReplacePrefix(cut, "NVIDIA Corporation", <<>>)
                 ELSE IF Contains(cut, "Advanced Micro Devices, Inc. [AMD/ATI]")
                 THEN ReplacePrefix(cut, "Advanced Micro Devices, Inc. [AMD/ATI]",
                                    <<"AMD", " ">>)
                 ELSE IF Contains(cut, "Intel Corporation")
                 THEN ReplacePrefix(cut, "Intel Corporation", <<"Intel", " ">>)
                 ELSE cut
    IN  IF firstColon > 0 /\ secondColon > 0 /\ clean # <<>>
        THEN [found |-> TRUE, name |-> Trimmed(clean)]
        ELSE [found |-> FALSE, name |-> <<>>]

\* The uevent file of a device: missing, or its lines "KEY=value\n" as key and
\* value.
NoUevent == [exists |-> FALSE, lines |-> <<>>]
Uevent(lines) == [exists |-> TRUE, lines |-> lines]

\* GpuReader::detectPciBusId: the trimmed value of the first PCI_SLOT_NAME
\* line, empty if there is none.
DetectPciBusId(uevent) ==
    LET hits == {i \in 1..Len(uevent.lines) : uevent.lines[i].key = "PCI_SLOT_NAME"}
    IN  IF ~uevent.exists \/ hits = {} THEN <<>>
        ELSE Trimmed(uevent.lines[CHOOSE i \in hits : \A j \in hits : i <= j].value)

\* The uevent loop of detectName from line i on, name being what the lines
\* before left.
RECURSIVE UeventName(_, _, _)
UeventName(lines, i, name) ==
    IF i > Len(lines) THEN name
    ELSE IF lines[i].key = "DRIVER"
    THEN UeventName(lines, i + 1, Trimmed(lines[i].value))
    ELSE IF lines[i].key = "PCI_ID" /\ name # <<>>
    THEN UeventName(lines, i + 1, name \o <<" (">> \o Trimmed(lines[i].value) \o <<")">>)
    ELSE UeventName(lines, i + 1, name)

\* The literal of the final fallback.
VendorLiteral(vendor) ==
    CASE vendor = "Nvidia" -> <<"NVIDIA GPU">>
      [] vendor = "AMD" -> <<"AMD GPU">>
      [] vendor = "Intel" -> <<"Intel GPU">>
      [] OTHER -> <<"GPU">>

\* GpuReader::detectName on a device directory dev (its product_name and
\* uevent files and what an lspci run for it does): the name, the strategy
\* that gave it and whether lspci was started (history).
DetectName(dev, vendor) ==
    LET p == ReadFirstLine(dev.product_name)
        pciBusId == DetectPciBusId(dev.uevent)
        productInfo == IF pciBusId # <<>> /\ dev.lspci.finished
                          /\ Trimmed(dev.lspci.output) # <<>>
                       THEN LspciProductInfo(Trimmed(dev.lspci.output))
                       ELSE [found |-> FALSE, name |-> <<>>]
        name == IF dev.uevent.exists THEN UeventName(dev.uevent.lines, 1, p.out) ELSE p.out
    IN  IF p.ok THEN [name |-> Trimmed(p.out), strategy |-> "product_name", lspci |-> FALSE]
        ELSE IF productInfo.found
        THEN [name |-> productInfo.name, strategy |-> "lspci", lspci |-> TRUE]
        ELSE IF name # <<>>
        THEN [name |-> name, strategy |-> "uevent", lspci |-> pciBusId # <<>>]
        ELSE [name |-> VendorLiteral(vendor), strategy |-> "vendor", lspci |-> pciBusId # <<>>]

\* product_name files of the model: missing, blank, or holding a name.
ProductNameFiles ==
    {NoFile, FileWithLine(<<"\n">>), FileWithLine(<<"GeForce GTX 1660 SUPER", "\n">>)}

\* uevent files of the model: missing, or any of the lines DRIVER= (with or
\* without a value), PCI_ID= and PCI_SLOT_NAME=, in the order the kernel
\* writes them.
UeventFiles ==
    {NoUevent} \cup
    {Uevent((IF driver = "none" THEN <<>>
             ELSE <<[key |-> "DRIVER",
                     value |-> IF driver = "empty" THEN <<"\n">> ELSE <<"nvidia", "\n">>]>>)
            \o (IF id THEN <<[key |-> "PCI_ID", value |-> <<"10DE:21C4", "\n">>]>> ELSE <<>>)
            \o (IF slot THEN <<[key |-> "PCI_SLOT_NAME",
                                value |-> <<"0000:01:00.0", "\n">>]>> ELSE <<>>))
       : driver \in {"none", "empty", "nvidia"}, id \in BOOLEAN, slot \in BOOLEAN}

\* What lspci -s <bus id> prints.
LspciOutputs ==
    {<<>>,
     <<"lspci", ":", " ", "Cannot open /proc/bus/pci", "\n">>,
     <<"01", ":", "00.0 VGA compatible controller", ":", "\n">>,
     <<"01", ":", "00.0 VGA compatible controller", ":", " ", "NVIDIA Corporation", " ",
       "TU116 [GeForce GTX 1660 SUPER]", " (rev ", "a1)", "\n">>,
     <<"03", ":", "00.0 VGA compatible controller", ":", " ",
       "Advanced Micro Devices, Inc. [AMD/ATI]", " ", "Navi 10", " (rev ", "c1)", "\n">>,
     <<"00", ":", "02.0 VGA compatible controller", ":", " ", "Intel Corporation", " ",
       "UHD Graphics 630", "\n">>,
     <<"04", ":", "00.0 Display controller", ":", " ", "Device 1234", " (rev ", "01)", "\n">>}

\* An lspci run: it does not finish within 3000 ms (or cannot be started), or
\* finishes having printed one of the outputs.
LspciRuns ==
    {[finished |-> FALSE, output |-> <<>>]} \cup
    {[finished |-> TRUE, output |-> o] : o \in LspciOutputs}

\* The device directories of the model.
NameDevices == [product_name : ProductNameFiles, uevent : UeventFiles, lspci : LspciRuns]

NoNameDevice ==
    [product_name |-> NoFile, uevent |-> NoUevent,
     lspci |-> [finished |-> FALSE, output |-> <<>>]]

(***************************************************************************)
(* GpuReader::readAmdClockInfo: gpu.cpp                                    *)
(***************************************************************************)

\* GpuReader::readFirstLine on a DPM file: QFile::readLine returns the first
\* line only; a missing or empty file fails.
ReaderReadFirstDpmLine(file) ==
    IF file.exists /\ Len(file.lines) > 0
    THEN [ok |-> TRUE, content |-> <<file.lines[1]>>]
    ELSE [ok |-> FALSE, content |-> <<>>]

\* The regular expression (\d+)\s*[MG]hz of readAmdClockInfo, built with
\* QRegularExpression::CaseInsensitiveOption.
ReaderDpmUnitMatches(unit) ==
    unit \in {"Mhz", "MHz", "MhZ", "MHZ", "mhz", "mHz", "mhZ", "mHZ",
              "Ghz", "GHz", "GhZ", "GHZ", "ghz", "gHz", "ghZ", "gHZ"}

\* The loop of readAmdClockInfo over the lines of the content: the number of
\* the first line that carries '*' and matches, else the initial -1.
RECURSIVE ReaderParseCurrentClock(_)
ReaderParseCurrentClock(lines) ==
    IF lines = <<>> THEN -1
    ELSE IF lines[1].star /\ ReaderDpmUnitMatches(lines[1].unit) THEN lines[1].mhz
    ELSE ReaderParseCurrentClock(Tail(lines))

\* GpuReader::readAmdClockInfo.
ReaderReadAmdClockInfo(mclkFile, sclkFile) ==
    LET m == ReaderReadFirstDpmLine(mclkFile)
        g == ReaderReadFirstDpmLine(sclkFile)
        memoryClock == IF m.ok THEN ReaderParseCurrentClock(m.content) ELSE -1
        graphicsClock == IF g.ok THEN ReaderParseCurrentClock(g.content) ELSE -1
    IN  [ret |-> memoryClock # -1 \/ graphicsClock # -1,
         memoryClock |-> memoryClock, graphicsClock |-> graphicsClock]

(***************************************************************************)
(* The parsing and averaging functions applied to bounded inputs           *)
(***************************************************************************)

\* Bounds: lines of a DPM text, engines of a list.
MaxDpmLines == 3
MaxEngines == 3

\* DPM texts: up to MaxDpmLines level lines, marked or not, the unit written
\* in the kernel's spelling, in upper case, or in GHz.
DpmContents ==
    UNION {[1..n -> DpmLines({300, 600, 900}, {"Mhz", "MHz", "Ghz"})]
           : n \in 0..MaxDpmLines}

\* DPM files of one level line whose unit is written in any letter case, or
\* is no frequency unit at all.
DpmCaseFiles ==
    {DpmFile(<<l>>) : l \in DpmLines({600}, {"Mhz", "MHz", "mhz", "MHZ", "Ghz", "ghz", "W"})}

\* Engine lists: up to MaxEngines engines, each with a utilization or -1.
EngineLists ==
    UNION {[1..n -> {[NewEngineStats("rcs0") EXCEPT !.utilizationPercent = u]
                       : u \in {-1, 0, 40, 60}}]
           : n \in 0..MaxEngines}

\* The calls of the model: the function and its argument.
CalcInputs ==
    {[fn |-> "parseCurrentClockFromDpm", lines |-> c, file |-> NoDpmFile, engines |-> <<>>, dev |-> NoNameDevice, vendor |-> "Unknown"]
       : c \in DpmContents}
    \cup
    {[fn |-> "readClockInfo", lines |-> <<>>, file |-> f, engines |-> <<>>, dev |-> NoNameDevice, vendor |-> "Unknown"]
       : f \in DpmCaseFiles}
    \cup
    {[fn |-> "calculateAverageUtilization", lines |-> <<>>, file |-> NoDpmFile,
      engines |-> e, dev |-> NoNameDevice, vendor |-> "Unknown"] : e \in EngineLists}
    \cup
    {[fn |-> "detectName", lines |-> <<>>, file |-> NoDpmFile, engines |-> <<>>,
      dev |-> d, vendor |-> v] : d \in NameDevices, v \in Vendors}

NoDetectedName == [name |-> <<>>, strategy |-> "none", lspci |-> FALSE]

NoCalcOut == [done |-> FALSE, result |-> 0, kHz |-> 0, reader |-> 0, name |-> NoDetectedName]

\* No function is being applied, for the other specifications.
CalcIdle ==
    /\ calcIn = [fn |-> "none", lines |-> <<>>, file |-> NoDpmFile, engines |-> <<>>, dev |-> NoNameDevice, vendor |-> "Unknown"]
    /\ calcOut = NoCalcOut

\* GpuBackendAmd::parseCurrentClockFromDpm(content), and the kHz value
\* readStats stores for it (the field keeps -1 unless the clock is > 0).
DoParseCurrentClockFromDpm ==
    /\ calcIn.fn = "parseCurrentClockFromDpm"
    /\ ~calcOut.done
    /\ LET clock == ParseCurrentClockFromDpm(calcIn.lines)
       IN  calcOut' = [done |-> TRUE, result |-> clock,
                       kHz |-> IF clock > 0 THEN clock * 1000 ELSE -1, reader |-> 0, name |-> NoDetectedName]
    /\ UNCHANGED calcIn

\* GpuBackendAmd::readClockInfo and GpuReader::readAmdClockInfo on the same
\* pp_dpm_sclk file: the graphics clock each extracts.
DoReadClockInfo ==
    /\ calcIn.fn = "readClockInfo"
    /\ ~calcOut.done
    /\ calcOut' = [done |-> TRUE,
                   result |-> AmdReadClockInfo(NoDpmFile, calcIn.file).graphicsClock,
                   kHz |-> 0,
                   reader |-> ReaderReadAmdClockInfo(NoDpmFile, calcIn.file).graphicsClock,
                   name |-> NoDetectedName]
    /\ UNCHANGED calcIn

\* GpuBackendIntel::calculateAverageUtilization(engines).
DoCalculateAverageUtilization ==
    /\ calcIn.fn = "calculateAverageUtilization"
    /\ ~calcOut.done
    /\ calcOut' = [done |-> TRUE, result |-> CalculateAverageUtilization(calcIn.engines),
                   kHz |-> 0, reader |-> 0, name |-> NoDetectedName]
    /\ UNCHANGED calcIn

\* GpuReader::detectName(devicePath, vendor).
DoDetectName ==
    /\ calcIn.fn = "detectName"
    /\ ~calcOut.done
    /\ calcOut' = [NoCalcOut EXCEPT !.done = TRUE,
                                    !.name = DetectName(calcIn.dev, calcIn.vendor)]
    /\ UNCHANGED calcIn

(***************************************************************************)
(* CompactGpuMonitor: compact_gpu_monitor.cpp                              *)
(***************************************************************************)

\* Bound: timer ticks followed on one monitor.
MaxTicks == 3

\* int m_pointsNumber {25} of CompactGpuMonitor.
MonitorPointsNumber == 25

\* What m_service.readStatsFor(device, stats) delivers while the system is in
\* the state stats (device path -> return value and utilization written): no
\* backend supports a device of unknown vendor, so its read returns false and
\* leaves the default GpuStats.
FailedProbe == [ret |-> FALSE, utilizationPercent |-> -1]

ProbeStats(device, stats) ==
    IF device.vendor = "Unknown" \/ ~stats[device.devicePath].ret
    THEN FailedProbe
    ELSE stats[device.devicePath]

\* GpuService::devices() given what GpuReader::enumerate would return: the
\* cached list unless it is empty.
CachedDevices(devices, found) == IF devices = <<>> THEN found ELSE devices

\* Mutant of GetGpuPriority: integrated Intel graphics first.
GetGpuPriorityIntelFirst(vendor) ==
    CASE vendor = "Intel" -> 1
      [] vendor = "Nvidia" -> 2
      [] vendor = "AMD" -> 3
      [] OTHER -> 4

\* CompactGpuMonitor::getGpuPriority.
GetGpuPriority(vendor) ==
    CASE vendor = "Nvidia" -> 1
      [] vendor = "AMD" -> 2
      [] vendor = "Intel" -> 3
      [] OTHER -> 4

\* The orders std::sort may leave the devices in: every permutation that is
\* sorted by priority (std::sort is not stable).
PrioritySortings(devices) ==
    LET n == Len(devices)
        perms == {p \in [1..n -> 1..n] : \A i, j \in 1..n : i # j => p[i] # p[j]}
    IN  {[i \in 1..n |-> devices[p[i]]] : p \in
            {q \in perms : \A i \in 1..(n - 1) :
                GetGpuPriority(devices[q[i]].vendor) <= GetGpuPriority(devices[q[i + 1]].vendor)}}

\* The probing loop of selectBestGpuDevice from position i of the sorted
\* devices on; sel holds m_hasDevice, m_device and m_stats.
RECURSIVE SelectLoop(_, _, _, _)
SelectLoop(sorted, i, sel, stats) ==
    IF i > Len(sorted) THEN sel
    ELSE LET tryStats == ProbeStats(sorted[i], stats)
         IN  IF tryStats.ret /\ (tryStats.utilizationPercent > 0 \/ ~sel.m_hasDevice)
             THEN LET picked == [m_hasDevice |-> TRUE, m_device |-> sorted[i],
                                 m_stats |-> [utilizationPercent |->
                                                 tryStats.utilizationPercent]]
                  IN  IF tryStats.utilizationPercent > 0 THEN picked
                      ELSE SelectLoop(sorted, i + 1, picked, stats)
             ELSE SelectLoop(sorted, i + 1, sel, stats)

\* CompactGpuMonitor::selectBestGpuDevice(devices): the selections it may
\* leave, one for each order the sort may produce.
SelectBestGpuDevice(devices, sel, stats) ==
    {SelectLoop(sorted, 1, sel, stats) : sorted \in PrioritySortings(devices)}

\* The members of a monitor before any device is selected.
NoSelection ==
    [m_hasDevice |-> FALSE, m_device |-> [vendor |-> "Unknown", devicePath |-> 0],
     m_stats |-> [utilizationPercent |-> -1]]

\* min(1.0, max(0.0, utilizationPercent / 100.0)), in hundredths.
ClampUtilization(utilizationPercent) ==
    IF utilizationPercent < 0 THEN 0
    ELSE IF utilizationPercent > 100 THEN 100 ELSE utilizationPercent

\* append to a history that keeps at most n points.
AppendPoint(history, point, n) ==
    LET h == Append(history, point)
    IN  IF Len(h) > n THEN Tail(h) ELSE h

\* No monitor exists.
NoMonitor ==
    [constructed |-> FALSE, m_hasDevice |-> FALSE, m_device |-> NoSelection.m_device,
     m_stats |-> NoSelection.m_stats, m_utilizationHistory |-> <<>>]

\* No selectBestGpuDevice call and no tick has happened.
NoMonitorLog ==
    [ticks |-> 0, selected |-> FALSE, devices |-> <<>>,
     stats |-> [p \in DevicePaths |-> FailedProbe], readFailed |-> FALSE]

\* No monitor exists, for the other specifications.
MonitorIdle ==
    /\ monitor = NoMonitor
    /\ monitorLog = NoMonitorLog
    /\ sysCards = <<>>
    /\ sysStats = [p \in DevicePaths |-> FailedProbe]

\* CompactGpuMonitor::CompactGpuMonitor: the member m_service is constructed,
\* devices() is asked and the best device selected; the history starts with
\* m_pointsNumber zeros.
ConstructMonitor ==
    /\ ~monitor.constructed
    /\ svcState = "none"
    /\ constructions < MaxConstructions
    /\ LET r == InitializeNvml(NewNvidiaBackendPrivate, env, nvmlLog)
       IN  /\ d_ptr' = r.d
           /\ nvmlLog' = r.log
    /\ svcState' = "alive"
    /\ m_engineCache' = [p \in {} |-> <<>>]
    /\ constructions' = constructions + 1
    /\ LET devs == CachedDevices(<<>>, sysCards)
       IN  /\ m_devices' = devs
           /\ devicesLog' = [calls |-> 1, enumerations |-> 1, first |-> devs, last |-> devs]
           /\ \E sel \in SelectBestGpuDevice(devs, NoSelection, sysStats) :
                 monitor' = [constructed |-> TRUE, m_hasDevice |-> sel.m_hasDevice,
                             m_device |-> sel.m_device, m_stats |-> sel.m_stats,
                             m_utilizationHistory |-> [i \in 1..MonitorPointsNumber |-> 0]]
           /\ monitorLog' = [ticks |-> 0, selected |-> TRUE, devices |-> devs,
                             stats |-> sysStats, readFailed |-> FALSE]
    /\ UNCHANGED <<env, lastRead, sysCards, sysStats, view, viewLog>>

\* Mutant of OnTickFrom: a failed read of the selected device is only retried
\* at the next tick.
OnTickRetryOnly(m, devs, stats) ==
    LET sels == IF m.m_hasDevice THEN {[m_hasDevice |-> m.m_hasDevice, m_device |-> m.m_device,
                                       m_stats |-> m.m_stats]}
                ELSE SelectBestGpuDevice(devs, NoSelection, stats)
    IN  {[monitor |-> [m EXCEPT !.m_hasDevice = sel.m_hasDevice, !.m_device = sel.m_device,
                                !.m_stats = sel.m_stats],
          selected |-> ~m.m_hasDevice, readFailed |-> FALSE] : sel \in sels}

\* CompactGpuMonitor::onTick on the members m, devices() returning devs and the
\* system being in state stats: the outcomes, each with the new members,
\* whether selectBestGpuDevice ran and whether the read of the selected device
\* failed.
OnTickFrom(m, devs, stats) ==
    LET current == [m_hasDevice |-> m.m_hasDevice, m_device |-> m.m_device,
                    m_stats |-> m.m_stats]
        sels == IF m.m_hasDevice THEN {current}
                ELSE SelectBestGpuDevice(devs, current, stats)
        after(sel) ==
            IF ~sel.m_hasDevice
            THEN {[monitor |-> [m EXCEPT !.m_hasDevice = FALSE, !.m_device = sel.m_device,
                                         !.m_stats = sel.m_stats],
                   selected |-> TRUE, readFailed |-> FALSE]}
            ELSE LET s == ProbeStats(sel.m_device, stats)
                 IN  IF s.ret
                     THEN {[monitor |->
                              [m EXCEPT !.m_hasDevice = TRUE, !.m_device = sel.m_device,
                                        !.m_stats = [utilizationPercent |-> s.utilizationPercent],
                                        !.m_utilizationHistory =
                                           AppendPoint(@, ClampUtilization(s.utilizationPercent),
                                                       MonitorPointsNumber)],
                            selected |-> ~m.m_hasDevice, readFailed |-> FALSE]}
                     ELSE {[monitor |-> [m EXCEPT !.m_hasDevice = again.m_hasDevice,
                                                  !.m_device = again.m_device,
                                                  !.m_stats = again.m_stats],
                            selected |-> TRUE, readFailed |-> TRUE]
                           : again \in SelectBestGpuDevice(
                                          devs, [sel EXCEPT !.m_hasDevice = FALSE], stats)}
    IN  UNION {after(sel) : sel \in sels}

\* One timeout of m_timer: onTick runs to its end.
OnTick ==
    /\ monitor.constructed
    /\ monitorLog.ticks < MaxTicks
    /\ LET asked == ~monitor.m_hasDevice
                    \/ ~ProbeStats(monitor.m_device, sysStats).ret
           devs == IF asked THEN CachedDevices(m_devices, sysCards) ELSE m_devices
       IN  /\ m_devices' = devs
           /\ devicesLog' = IF asked
                            THEN [devicesLog EXCEPT
                                     !.calls = @ + 1,
                                     !.enumerations = @ + (IF m_devices = <<>> THEN 1 ELSE 0),
                                     !.last = devs]
                            ELSE devicesLog
           /\ \E o \in OnTickFrom(monitor, devs, sysStats) :
                 /\ monitor' = o.monitor
                 /\ monitorLog' = [ticks |-> monitorLog.ticks + 1, selected |-> o.selected,
                                   devices |-> devs, stats |-> sysStats,
                                   readFailed |-> o.readFailed]
    /\ UNCHANGED <<env, svcState, d_ptr, m_engineCache, nvmlLog, lastRead, constructions,
                   sysCards, sysStats, view, viewLog>>

\* Between two ticks the devices become readable or unreadable and their
\* utilization changes.
StatsChange(states) ==
    /\ \E s \in states :
          /\ s # sysStats
          /\ sysStats' = s
    /\ UNCHANGED <<monitor, monitorLog, sysCards, view, viewLog>>

(***************************************************************************)
(* GpuDetailViewWidget and GpuDetailItem: gui/gpu_detail_view_widget.cpp   *)
(***************************************************************************)

\* Bound: timeouts of the update timer followed on one view.
MaxViewTicks == 2

\* static constexpr int m_pointsNumber = 30 of GpuDetailItem.
ItemPointsNumber == 30

\* The number of quint64 values, scaled to the integers of the checker: every
\* utilization of the model is far below it, as it is far below 2^64.
Quint64Modulus == 1073741824

\* static_cast<quint64>(int).
ToQuint64(v) == v % Quint64Modulus

\* GpuDetailViewWidget::getDeviceUtilization: the utilization of a successful
\* read converted to quint64, 0 when the read fails.
GetDeviceUtilization(device, stats) ==
    LET s == ProbeStats(device, stats)
    IN  IF s.ret THEN ToQuint64(s.utilizationPercent) ELSE 0

\* The comparator of sortDevicesByUtilization: whether a goes before b.
SortsBefore(a, b, stats) ==
    LET utilA == GetDeviceUtilization(a, stats)
        utilB == GetDeviceUtilization(b, stats)
    IN  IF utilA # utilB THEN utilA > utilB
        ELSE GetGpuPriority(a.vendor) < GetGpuPriority(b.vendor)

\* GpuDetailViewWidget::sortDevicesByUtilization: the orders std::sort may
\* leave, every permutation in which no device comes after one it goes before.
SortDevicesByUtilization(devices, stats) ==
    LET n == Len(devices)
        perms == {p \in [1..n -> 1..n] : \A i, j \in 1..n : i # j => p[i] # p[j]}
    IN  {[i \in 1..n |-> devices[p[i]]] : p \in
            {q \in perms : \A i, j \in 1..n :
                i < j => ~SortsBefore(devices[q[j]], devices[q[i]], stats)}}

\* GpuDetailItem::updateStats on a history: a successful read appends the
\* clamped utilization (in hundredths) and drops the oldest point beyond
\* m_pointsNumber; a failed read changes nothing.
UpdateStats(item, stats) ==
    LET s == ProbeStats(item.m_device, stats)
    IN  IF s.ret
        THEN [item EXCEPT !.m_utilizationHistory =
                 AppendPoint(@, ClampUtilization(s.utilizationPercent), ItemPointsNumber)]
        ELSE item

\* GpuDetailItem::GpuDetailItem(device): an empty history, then one
\* updateStats.
NewGpuDetailItem(device, stats) ==
    UpdateStats([m_device |-> device, m_utilizationHistory |-> <<>>], stats)

\* GpuDetailViewWidget::createGpuItems: the old items are cleared and one item
\* is made for each device of m_devices.
CreateGpuItems(devices, stats) ==
    [i \in 1..Len(devices) |-> NewGpuDetailItem(devices[i], stats)]

\* The test of updateGpuDevices: the sizes differ, or a name or vendor differs
\* at some index (the name of a device being that of its card).
DevicesChanged(devices, m_devs) ==
    \/ Len(devices) # Len(m_devs)
    \/ \E i \in 1..Len(devices) :
          \/ devices[i].devicePath # m_devs[i].devicePath
          \/ devices[i].vendor # m_devs[i].vendor

\* GpuDetailViewWidget::updateGpuDevices with devices() returning devices: the
\* outcomes, each with the new members and whether the items were rebuilt.
UpdateGpuDevices(v, devices, stats) ==
    IF DevicesChanged(devices, v.m_devices) \/ v.m_isFirstEnter
    THEN IF devices = <<>>
         THEN {[view |-> [v EXCEPT !.m_devices = <<>>, !.m_isFirstEnter = FALSE],
                rebuilt |-> FALSE]}
         ELSE {[view |-> [v EXCEPT !.m_devices = sorted, !.m_isFirstEnter = FALSE,
                                   !.m_gpuItems = CreateGpuItems(sorted, stats)],
                rebuilt |-> TRUE]
               : sorted \in SortDevicesByUtilization(devices, stats)}
    ELSE {[view |-> v, rebuilt |-> FALSE]}

\* GpuDetailViewWidget::onUpdateData: updateGpuDevices, then updateStats of
\* every item.  samples counts the updateStats calls made on each item,
\* that of its constructor included.
OnUpdateData(v, devices, stats) ==
    {[view |-> [o.view EXCEPT !.m_gpuItems =
                   [i \in 1..Len(@) |-> UpdateStats(@[i], stats)]],
      rebuilt |-> o.rebuilt,
      samples |-> [i \in 1..Len(o.view.m_gpuItems) |-> IF o.rebuilt THEN 2 ELSE 1]]
     : o \in UpdateGpuDevices(v, devices, stats)}

\* No view exists.
NoView ==
    [constructed |-> FALSE, m_devices |-> <<>>, m_isFirstEnter |-> FALSE, m_gpuItems |-> <<>>]

\* No update of the view has happened.
NoViewLog ==
    [ticks |-> 0, updates |-> 0, rebuilt |-> FALSE, entered |-> FALSE, devices |-> <<>>,
     stats |-> [p \in DevicePaths |-> FailedProbe], samples |-> <<>>]

\* No view exists, for the other specifications.
ViewIdle ==
    /\ view = NoView
    /\ viewLog = NoViewLog

\* GpuDetailViewWidget::GpuDetailViewWidget: the member m_gpuService is
\* constructed, the timer started and onUpdateData called once.
ConstructView ==
    /\ ~view.constructed
    /\ svcState = "none"
    /\ constructions < MaxConstructions
    /\ LET r == InitializeNvml(NewNvidiaBackendPrivate, env, nvmlLog)
       IN  /\ d_ptr' = r.d
           /\ nvmlLog' = r.log
    /\ svcState' = "alive"
    /\ m_engineCache' = [p \in {} |-> <<>>]
    /\ constructions' = constructions + 1
    /\ LET devs == CachedDevices(<<>>, sysCards)
       IN  /\ m_devices' = devs
           /\ devicesLog' = [calls |-> 1, enumerations |-> 1, first |-> devs, last |-> devs]
           /\ \E o \in OnUpdateData([NoView EXCEPT !.constructed = TRUE,
                                                   !.m_isFirstEnter = TRUE], devs, sysStats) :
                 /\ view' = o.view
                 /\ viewLog' = [ticks |-> 0, updates |-> 1, rebuilt |-> o.rebuilt,
                                entered |-> FALSE, devices |-> devs, stats |-> sysStats,
                                samples |-> o.samples]
    /\ UNCHANGED <<env, lastRead, sysCards, sysStats, monitor, monitorLog>>

\* GpuDetailViewWidget::onViewEntered.
OnViewEntered ==
    /\ view.constructed
    /\ ~view.m_isFirstEnter
    /\ view' = [view EXCEPT !.m_isFirstEnter = TRUE]
    /\ viewLog' = [viewLog EXCEPT !.entered = TRUE]
    /\ UNCHANGED <<sysCards, sysStats, monitor, monitorLog>>

\* One timeout of m_updateTimer: the slots run in the order they were
\* connected, onUpdateData first, then updateStats of every item that was
\* connected by createGpuItems before this timeout and is still shown.
OnTimeout ==
    /\ view.constructed
    /\ viewLog.ticks < MaxViewTicks
    /\ LET devs == CachedDevices(m_devices, sysCards)
       IN  /\ m_devices' = devs
           /\ devicesLog' = [devicesLog EXCEPT
                                !.calls = @ + 1,
                                !.enumerations = @ + (IF m_devices = <<>> THEN 1 ELSE 0),
                                !.last = devs]
           /\ \E o \in OnUpdateData(view, devs, sysStats) :
                 /\ view' = IF o.rebuilt THEN o.view
                            ELSE [o.view EXCEPT !.m_gpuItems =
                                     [i \in 1..Len(@) |-> UpdateStats(@[i], sysStats)]]
                 /\ viewLog' = [ticks |-> viewLog.ticks + 1, updates |-> viewLog.updates + 1,
                                rebuilt |-> o.rebuilt, entered |-> FALSE,
                                devices |-> devs, stats |-> sysStats,
                                samples |-> IF o.rebuilt THEN o.samples
                                            ELSE [i \in 1..Len(o.samples) |-> o.samples[i] + 1]]
    /\ UNCHANGED <<env, svcState, d_ptr, m_engineCache, nvmlLog, lastRead, constructions,
                   sysCards, sysStats, monitor, monitorLog>>

(***************************************************************************)
(* Concurrent callers of the delta engine: systemdbusserver.cpp            *)
(***************************************************************************)

\* Bound: threads calling into the delta engine at the same time.
MaxThreads == 2

Threads == 1..MaxThreads

\* The calls a thread makes: calculateDelta(pid, field, cur) on one process
\* and two of its fields, or resetProcessDeltaData(pid).
ThreadCalls ==
    {[op |-> "calculateDelta", pid |-> 1, field |-> f, value |-> v]
       : f \in {"utime", "stime"}, v \in DeltaValues}
    \cup {[op |-> "reset", pid |-> 1, field |-> "", value |-> 0]}

\* A thread about to make a call: it has not taken the mutex yet.
NewCaller(call) ==
    [pc |-> "call", call |-> call, firstTime |-> FALSE, last |-> 0, delta |-> 0]

\* Mutant of MutexFree: the lock is taken without regard to its holder.
MutexIgnored(owner) == TRUE

\* QMutexLocker locker(&m_deltaDataMutex) gets past its constructor only when
\* no thread holds the mutex (0 = unlocked).
MutexFree(owner) == owner = 0

\* No thread is calling into the delta engine, for the other specifications.
CallersIdle ==
    /\ m_deltaDataMutex = 0
    /\ callers = [t \in {} |-> NewCaller([op |-> "reset", pid |-> 1, field |-> "", value |-> 0])]

\* The QMutexLocker constructor of either function.
Lock(t) ==
    /\ callers[t].pc = "call"
    /\ MutexFree(m_deltaDataMutex)
    /\ m_deltaDataMutex' = t
    /\ callers' = [callers EXCEPT ![t].pc = "locked"]
    /\ UNCHANGED m_processLastValues

\* calculateDelta, first half: lastData = m_processLastValues[pid] (inserting a
\* default entry) and the reads of *firstTimePtr and *lastValuePtr.
ReadBaseline(t) ==
    /\ callers[t].pc = "locked"
    /\ callers[t].call.op = "calculateDelta"
    /\ LET c == callers[t].call
           m1 == MapIndex(m_processLastValues, c.pid)
       IN  /\ m_processLastValues' = m1
           /\ callers' = [callers EXCEPT ![t].pc = "read",
                                         ![t].firstTime = m1[c.pid][c.field].firstTime,
                                         ![t].last = m1[c.pid][c.field].last]
    /\ UNCHANGED m_deltaDataMutex

\* calculateDelta, second half: the comparison, the delta and the writes of
\* *firstTimePtr and *lastValuePtr.  The entry is there unless a reset removed
\* it in between, in which case the writes go through a dangling reference:
\* the entry may be written as if re-inserted, or the write may be lost.
WriteBaseline(t) ==
    /\ callers[t].pc = "read"
    /\ LET c == callers[t].call
           delta == IF callers[t].firstTime THEN 0
                    ELSE IF c.value >= callers[t].last
                    THEN U64Sub(c.value, callers[t].last) ELSE 0
       IN  /\ callers' = [callers EXCEPT ![t].pc = "written", ![t].delta = delta]
           /\ \E landed \in (IF c.pid \in DOMAIN m_processLastValues THEN {TRUE} ELSE BOOLEAN) :
                 m_processLastValues' =
                    IF landed
                    THEN [MapIndex(m_processLastValues, c.pid) EXCEPT
                             ![c.pid][c.field] = [last |-> c.value, firstTime |-> FALSE]]
                    ELSE m_processLastValues
    /\ UNCHANGED m_deltaDataMutex

\* resetProcessDeltaData: m_processLastValues.remove(pid).
RemoveBaselines(t) ==
    /\ callers[t].pc = "locked"
    /\ callers[t].call.op = "reset"
    /\ m_processLastValues' = ResetProcessDeltaData(m_processLastValues, callers[t].call.pid)
    /\ callers' = [callers EXCEPT ![t].pc = "written"]
    /\ UNCHANGED m_deltaDataMutex

\* The QMutexLocker destructor at the return of either function.
Unlock(t) ==
    /\ callers[t].pc = "written"
    /\ m_deltaDataMutex' = 0
    /\ callers' = [callers EXCEPT ![t].pc = "done"]
    /\ UNCHANGED m_processLastValues

(***************************************************************************)
(* SystemDBusServer::setServiceEnable: systemdbusserver.cpp                *)
(***************************************************************************)

\* Whether the pieces of needle occur next to each other in text:
\* QByteArray::contains.
IsInfix(needle, text) ==
    \E i \in 0..(Len(text) - Len(needle)) :
       \A k \in 1..Len(needle) : text[i + k] = needle[k]

\* The executables of the model: the system monitor and another program.
MonitorExe == "/usr/bin/deepin-system-monitor"
OtherExe == "/usr/bin/python3"

\* getProcIdExe(id) for a process running binary: the path realpath gives for
\* /proc/<id>/exe, the empty string when the id is not positive or realpath
\* fails (the process is gone, or its binary was removed or replaced).
GetProcIdExe(id, binary, resolves) ==
    IF id > 0 /\ resolves THEN binary ELSE ""

\* QStandardPaths::findExecutable("deepin-system-monitor", {"/usr/bin"}): the
\* empty string when no such executable is there.
FindExecutable(installed) == IF installed THEN MonitorExe ELSE ""

\* dbusCallerPid: 0 when not called from D-Bus or when the bus does not know
\* the pid of the sender.
DbusCallerPid(calledFromDBus, pid) == IF ~calledFromDBus THEN 0 ELSE pid

\* SystemDBusServer::checkCaller.
CheckCaller(caller) ==
    IF ~caller.calledFromDBus THEN FALSE
    ELSE LET callerExe == GetProcIdExe(DbusCallerPid(caller.calledFromDBus, caller.pid),
                                       caller.binary, caller.resolves)
             dbmExe == FindExecutable(caller.installed)
         IN  callerExe = dbmExe

\* The test of the service name in setServiceEnableImpl (no name of the model
\* is longer than SHRT_MAX).
InvalidServiceName(serviceName) ==
    serviceName = <<>> \/ Contains(serviceName, ";") \/ Contains(serviceName, " ")

\* What "systemctl list-unit-files --type=service --no-pager" prints for the
\* units of the system.
UnitNames == {"ssh", "cups"}

UnitListing(state) ==
    <<"ssh", ".service", " ", state["ssh"], "\n",
      "cups", ".service", " ", state["cups"], "\n">>

\* The unit a name given to systemctl enable|disable denotes, "" if none.
UnitOf(serviceName) ==
    IF Len(serviceName) >= 1 /\ serviceName[1] \in UnitNames
       /\ (Len(serviceName) = 1 \/ (Len(serviceName) = 2 /\ serviceName[2] = ".service"))
    THEN serviceName[1] ELSE ""

\* SystemDBusServer::setServiceEnableImpl on the unit states state: the string
\* returned, the systemctl commands started, in order, and the new unit
\* states.
SetServiceEnableImpl(in, state) ==
    IF ~CheckCaller(in.caller)
    THEN [ret |-> "EPERM", commands |-> <<>>, units |-> state, polkitAsked |-> FALSE]
    ELSE IF InvalidServiceName(in.serviceName)
    THEN [ret |-> "EINVAL", commands |-> <<>>, units |-> state, polkitAsked |-> FALSE]
    ELSE IF ~IsInfix(in.serviceName, UnitListing(state))
    THEN [ret |-> "EINVAL", commands |-> <<"list-unit-files">>, units |-> state,
          polkitAsked |-> FALSE]
    ELSE IF ~in.polkitYes
    THEN [ret |-> "EPERM", commands |-> <<"list-unit-files">>, units |-> state,
          polkitAsked |-> TRUE]
    ELSE LET verb == IF in.enable THEN "enable" ELSE "disable"
             unit == UnitOf(in.serviceName)
             after == IF unit = "" THEN state
                      ELSE [state EXCEPT ![unit] = IF in.enable THEN "enabled" ELSE "disabled"]
             errorRet == IF unit = "" THEN "Failed" ELSE ""
             checkRet == IF unit = "" THEN <<>> ELSE <<after[unit], "\n">>
         IN  [ret |-> IF in.enable /\ checkRet = <<"enabled">> THEN ""
                      ELSE IF ~in.enable /\ checkRet = <<"disabled">> THEN ""
                      ELSE errorRet,
              commands |-> <<"list-unit-files", verb, "is-enabled">>,
              units |-> after, polkitAsked |-> TRUE]

\* The calls of the model: who calls, with which name, and what polkit says.
ServiceNames ==
    {<<>>, <<"ssh">>, <<"cups", ".service">>, <<"ssh", ";", "reboot">>,
     <<"ssh", " ", "cups">>, <<"nosuch">>, <<"disabled">>}

\* The callers: the process sending the call, whether /proc/<pid>/exe of it
\* resolves, and whether deepin-system-monitor is installed in /usr/bin (a
\* process whose binary resolves to that path implies it is).
ServiceCallers ==
    {c \in [calledFromDBus : BOOLEAN, pid : {0, 4242}, binary : {MonitorExe, OtherExe},
            resolves : BOOLEAN, installed : BOOLEAN] :
        (c.binary = MonitorExe /\ c.resolves) => c.installed}

ServiceCalls ==
    [caller : ServiceCallers, serviceName : ServiceNames, enable : BOOLEAN,
     polkitYes : BOOLEAN]

NoServiceCall ==
    [called |-> FALSE,
     in |-> [caller |-> [calledFromDBus |-> FALSE, pid |-> 0, binary |-> OtherExe,
                         resolves |-> FALSE, installed |-> FALSE],
             serviceName |-> <<>>, enable |-> FALSE, polkitYes |-> FALSE],
     listed |-> FALSE, ret |-> "", commands |-> <<>>, polkitAsked |-> FALSE]

\* No setServiceEnable call has been made, for the other specifications.
ServiceIdle ==
    /\ unitFiles = [u \in UnitNames |-> "disabled"]
    /\ lastServiceCall = NoServiceCall

\* One D-Bus call of setServiceEnable(serviceName, enable).
DoSetServiceEnable ==
    \E in \in ServiceCalls :
       LET r == SetServiceEnableImpl(in, unitFiles)
       IN  /\ unitFiles' = r.units
           /\ lastServiceCall' = [called |-> TRUE, in |-> in,
                                  listed |-> IsInfix(in.serviceName, UnitListing(unitFiles)),
                                  ret |-> r.ret, commands |-> r.commands,
                                  polkitAsked |-> r.polkitAsked]

(***************************************************************************)
(* Specifications                                                          *)
(***************************************************************************)

\* The delta engine at rest, for the specifications of the GPU layer.
DeltaIdle ==
    /\ m_processLastValues = [p \in {} |-> NewProcessDeltaData]
    /\ deltaCall = NoDeltaCall
    /\ deltaCalcs = 0
    /\ deltaResets = 0
    /\ observed = [k \in {} |-> 0]
    /\ resetPids = {}

\* The environment with the complete NVML library.
FullEnvironment ==
    [disableNvml |-> FALSE, libLoadable |-> TRUE, libSymbols |-> AllSymbols,
     initOk |-> TRUE]

\* No enumeration is going on, for the other specifications.
EnumIdle == EnumInitIn(<<>>)

\* The system server: calculateDelta and resetProcessDeltaData calls.
InitDelta == CalcIdle /\ CallersIdle /\ SeriesIdle /\ ServiceIdle /\ MonitorIdle /\ ViewIdle /\ DeltaInit /\ GpuInitIn(FullEnvironment) /\ EnumIdle

SpecDelta == InitDelta /\ [][DeltaNext /\ UNCHANGED <<gpuVars, enumVars, calcVars, guiVars, srvVars>>]_vars

\* Data sources of the service specification: each query answers or fails.
SvcNvmlAnswers ==
    {a \in NvmlAnswers({50}, {8}, {60}, {1500}) :
        a.memOk = a.util.ok /\ a.temp.ok = a.util.ok /\ a.gclk = a.mclk}
SvcDpmFiles == {NoDpmFile, DpmFile(<<[mhz |-> 600, unit |-> "Mhz", star |-> TRUE]>>)}
SvcAmdSysfs ==
    {f \in AmdSysfs({50}, {8}, {45000}, SvcDpmFiles) :
        /\ f.mem_info_vram_used = f.mem_info_vram_total
        /\ f.mem_info_vram_used.ok = f.gpu_busy_percent.ok
        /\ f.temp_input.ok = f.gpu_busy_percent.ok
        /\ f.pp_dpm_mclk = f.pp_dpm_sclk
        /\ f.pp_dpm_mclk.exists = f.gpu_busy_percent.ok}
SvcEngineListings ==
    {[exists |-> FALSE, entries |-> <<>>],
     [exists |-> TRUE,
      entries |-> <<[name |-> "rcs0", busy_percent |-> Some(50), busy_ns |-> Absent]>>]}
SvcIntelSysfs ==
    {f \in IntelSysfs(SvcEngineListings, {45000}, {300}) :
        /\ f.temp_input.ok = f.engine.exists
        /\ f.gt_cur_freq_mhz.ok = f.engine.exists}

\* One readStatsFor call consults the sources of the device's vendor only.
SvcSources ==
    [vendor \in Vendors |->
        CASE vendor = "Nvidia" -> Sources(SvcNvmlAnswers, {NoAmdSysfs}, {NoIntelSysfs})
          [] vendor = "AMD" -> Sources({NoNvmlAnswer}, SvcAmdSysfs, {NoIntelSysfs})
          [] vendor = "Intel" -> Sources({NoNvmlAnswer}, {NoAmdSysfs}, SvcIntelSysfs)
          [] vendor = "Unknown" -> Sources({NoNvmlAnswer}, {NoAmdSysfs}, {NoIntelSysfs})]

\* A GpuService in any environment: constructions, reads of devices of every
\* vendor, destructions.
Init == CalcIdle /\ CallersIdle /\ SeriesIdle /\ ServiceIdle /\ MonitorIdle /\ ViewIdle /\ DeltaIdle /\ EnumIdle /\ \E e \in Environments : GpuInitIn(e)

ReadAnyDevice ==
    \E vendor \in Vendors :
        DoReadStatsFor({dev \in GpuDevices : dev.vendor = vendor}, SvcSources[vendor], {1500})

Next ==
    \/ ConstructService /\ UNCHANGED <<deltaVars, enumVars, calcVars, guiVars, srvVars>>
    \/ DestroyService /\ UNCHANGED <<deltaVars, enumVars, calcVars, guiVars, srvVars>>
    \/ ReadAnyDevice /\ UNCHANGED <<deltaVars, enumVars, calcVars, guiVars, srvVars>>

Spec == Init /\ [][Next]_vars

\* The AMD backend on sysfs files holding any of the sampled values:
\* gpu_busy_percent below, within and above 0..100, VRAM counters in either
\* order, a marked or unmarked first DPM line.
AmdBusySamples == {-1, 0, 100, 150}
AmdByteSamples == {4, 8}
AmdDpmFiles ==
    {NoDpmFile,
     DpmFile(<<[mhz |-> 600, unit |-> "Mhz", star |-> TRUE]>>),
     DpmFile(<<[mhz |-> 300, unit |-> "Mhz", star |-> FALSE],
               [mhz |-> 600, unit |-> "Mhz", star |-> TRUE]>>)}
AmdSources ==
    {f \in AmdSysfs(AmdBusySamples, AmdByteSamples, {45000}, AmdDpmFiles) :
        f.pp_dpm_mclk = f.pp_dpm_sclk}

ReadAmdDevice ==
    DoReadStatsFor({dev \in GpuDevices : dev.vendor = "AMD"},
                   Sources({NoNvmlAnswer}, AmdSources, {NoIntelSysfs}), {1500})

NextAmd ==
    \/ ConstructService /\ UNCHANGED <<deltaVars, enumVars, calcVars, guiVars, srvVars>>
    \/ DestroyService /\ UNCHANGED <<deltaVars, enumVars, calcVars, guiVars, srvVars>>
    \/ ReadAmdDevice /\ UNCHANGED <<deltaVars, enumVars, calcVars, guiVars, srvVars>>

\* No GpuService exists yet; the NVML library is complete.
InitBackend == CalcIdle /\ CallersIdle /\ SeriesIdle /\ ServiceIdle /\ MonitorIdle /\ ViewIdle /\ DeltaIdle /\ EnumIdle /\ GpuInitIn(FullEnvironment)

SpecAmd == InitBackend /\ [][NextAmd]_vars

\* The Intel backend on engine directories that appear, change and vanish
\* between reads.
IntelEngineListings ==
    {[exists |-> FALSE, entries |-> <<>>],
     [exists |-> TRUE, entries |-> <<>>],
     [exists |-> TRUE,
      entries |-> <<[name |-> "rcs0", busy_percent |-> Some(50), busy_ns |-> Absent]>>],
     [exists |-> TRUE,
      entries |-> <<[name |-> "rcs0", busy_percent |-> Absent, busy_ns |-> Some(7)]>>],
     [exists |-> TRUE,
      entries |-> <<[name |-> "rcs0", busy_percent |-> Some(40), busy_ns |-> Absent],
                    [name |-> "vcs0", busy_percent |-> Some(61), busy_ns |-> Absent]>>]}
IntelSources ==
    {f \in IntelSysfs(IntelEngineListings, {45000}, {0, 300}) :
        f.temp_input.ok = f.gt_cur_freq_mhz.ok}

ReadIntelDevice ==
    DoReadStatsFor({dev \in GpuDevices : dev.vendor = "Intel"},
                   Sources({NoNvmlAnswer}, {NoAmdSysfs}, IntelSources), {1500})

NextIntel ==
    \/ ConstructService /\ UNCHANGED <<deltaVars, enumVars, calcVars, guiVars, srvVars>>
    \/ DestroyService /\ UNCHANGED <<deltaVars, enumVars, calcVars, guiVars, srvVars>>
    \/ ReadIntelDevice /\ UNCHANGED <<deltaVars, enumVars, calcVars, guiVars, srvVars>>

SpecIntel == InitBackend /\ [][NextIntel]_vars

\* GpuReader::enumerate on any listing of /sys/class/drm.
NextEnum ==
    \/ DoEnumerate /\ UNCHANGED <<deltaVars, gpuVars, calcVars, guiVars, srvVars>>
    \/ Unplug /\ UNCHANGED <<deltaVars, gpuVars, calcVars, guiVars, srvVars>>

InitEnum ==
    CalcIdle /\ CallersIdle /\ SeriesIdle /\ ServiceIdle /\ MonitorIdle /\ ViewIdle /\ DeltaIdle /\ GpuInitIn(FullEnvironment) /\ \E l \in DrmListings : EnumInitIn(l)

SpecEnum == InitEnum /\ [][NextEnum]_vars

\* A GpuService whose devices() is called while cards come and go.
InitDevices ==
    CalcIdle /\ CallersIdle /\ SeriesIdle /\ ServiceIdle /\ MonitorIdle /\ ViewIdle /\ DeltaIdle /\ GpuInitIn(FullEnvironment) /\ \E l \in HotplugListings : EnumInitIn(l)

NextDevices ==
    \/ ConstructService /\ UNCHANGED <<deltaVars, enumVars, calcVars, guiVars, srvVars>>
    \/ DestroyService /\ UNCHANGED <<deltaVars, enumVars, calcVars, guiVars, srvVars>>
    \/ DoDevices /\ UNCHANGED <<deltaVars, enumVars, calcVars, guiVars, srvVars>>
    \/ Plug /\ UNCHANGED <<deltaVars, gpuVars, calcVars, guiVars, srvVars>>
    \/ Unplug /\ UNCHANGED <<deltaVars, gpuVars, calcVars, guiVars, srvVars>>

SpecDevices == InitDevices /\ [][NextDevices]_vars

\* The parsing and averaging functions, each applied once to any input.
InitCalc ==
    /\ CallersIdle /\ SeriesIdle /\ ServiceIdle /\ MonitorIdle /\ ViewIdle /\ DeltaIdle /\ GpuInitIn(FullEnvironment) /\ EnumIdle
    /\ calcIn \in CalcInputs
    /\ calcOut = NoCalcOut

NextCalc ==
    \/ DoParseCurrentClockFromDpm /\ UNCHANGED <<deltaVars, gpuVars, enumVars, guiVars, srvVars>>
    \/ DoReadClockInfo /\ UNCHANGED <<deltaVars, gpuVars, enumVars, guiVars, srvVars>>
    \/ DoCalculateAverageUtilization /\ UNCHANGED <<deltaVars, gpuVars, enumVars, guiVars, srvVars>>
    \/ DoDetectName /\ UNCHANGED <<deltaVars, gpuVars, enumVars, guiVars, srvVars>>

SpecCalc == InitCalc /\ [][NextCalc]_vars

\* A CompactGpuMonitor on a system whose devices become readable and
\* unreadable between the ticks.
MonitorCards ==
    {<<>>,
     <<[vendor |-> "Intel", devicePath |-> 0], [vendor |-> "Nvidia", devicePath |-> 1]>>,
     <<[vendor |-> "AMD", devicePath |-> 0], [vendor |-> "Intel", devicePath |-> 1]>>,
     <<[vendor |-> "Unknown", devicePath |-> 0], [vendor |-> "AMD", devicePath |-> 1]>>,
     <<[vendor |-> "Intel", devicePath |-> 0], [vendor |-> "Intel", devicePath |-> 1]>>}

MonitorOutcomes ==
    {FailedProbe} \cup {[ret |-> TRUE, utilizationPercent |-> u] : u \in {-1, 0, 45}}

\* The states of the system: only the paths of the cards above answer.
MonitorStats ==
    {s \in [DevicePaths -> MonitorOutcomes] :
        \A p \in DevicePaths :
           (\A c \in MonitorCards : \A i \in 1..Len(c) : c[i].devicePath # p)
              => s[p] = FailedProbe}

InitMonitor ==
    /\ CalcIdle /\ CallersIdle /\ SeriesIdle /\ ServiceIdle
    /\ DeltaIdle /\ EnumIdle /\ GpuInitIn(FullEnvironment)
    /\ monitor = NoMonitor
    /\ monitorLog = NoMonitorLog
    /\ ViewIdle
    /\ sysCards \in MonitorCards
    /\ sysStats \in MonitorStats

NextMonitor ==
    \/ ConstructMonitor /\ UNCHANGED <<deltaVars, enumVars, calcVars, srvVars>>
    \/ OnTick /\ UNCHANGED <<deltaVars, enumVars, calcVars, srvVars>>
    \/ StatsChange(MonitorStats) /\ UNCHANGED <<deltaVars, gpuVars, enumVars, calcVars, srvVars>>

SpecMonitor == InitMonitor /\ [][NextMonitor]_vars

\* A GpuDetailViewWidget on the same systems, entered again at any time.
InitView ==
    /\ CalcIdle /\ CallersIdle /\ SeriesIdle /\ ServiceIdle
    /\ DeltaIdle /\ EnumIdle /\ GpuInitIn(FullEnvironment)
    /\ monitor = NoMonitor
    /\ monitorLog = NoMonitorLog
    /\ ViewIdle
    /\ sysCards \in MonitorCards
    /\ sysStats \in MonitorStats

NextView ==
    \/ ConstructView /\ UNCHANGED <<deltaVars, enumVars, calcVars, srvVars>>
    \/ OnViewEntered /\ UNCHANGED <<deltaVars, gpuVars, enumVars, calcVars, srvVars>>
    \/ OnTimeout /\ UNCHANGED <<deltaVars, enumVars, calcVars, srvVars>>
    \/ StatsChange(MonitorStats) /\ UNCHANGED <<deltaVars, gpuVars, enumVars, calcVars, srvVars>>

SpecView == InitView /\ [][NextView]_vars

\* Threads calling calculateDelta and resetProcessDeltaData at the same
\* time, each call in the steps the scheduler may interleave.
InitThreads ==
    /\ CalcIdle /\ SeriesIdle /\ ServiceIdle /\ MonitorIdle /\ ViewIdle
    /\ DeltaIdle /\ EnumIdle /\ GpuInitIn(FullEnvironment)
    /\ m_deltaDataMutex = 0
    /\ callers \in [Threads -> {NewCaller(c) : c \in ThreadCalls}]

ThreadsFrame ==
    UNCHANGED <<deltaCall, deltaCalcs, deltaResets, observed, resetPids, gpuVars, enumVars,
                calcVars, guiVars, unitFiles, lastServiceCall, series>>

NextThreads ==
    \/ \E t \in Threads : Lock(t) /\ ThreadsFrame
    \/ \E t \in Threads : ReadBaseline(t) /\ ThreadsFrame
    \/ \E t \in Threads : WriteBaseline(t) /\ ThreadsFrame
    \/ \E t \in Threads : RemoveBaselines(t) /\ ThreadsFrame
    \/ \E t \in Threads : Unlock(t) /\ ThreadsFrame

SpecThreads == InitThreads /\ [][NextThreads]_vars

\* D-Bus calls of setServiceEnable by any caller.
InitService ==
    /\ CalcIdle /\ CallersIdle /\ SeriesIdle /\ ServiceIdle /\ MonitorIdle /\ ViewIdle
    /\ DeltaIdle /\ EnumIdle /\ GpuInitIn(FullEnvironment)

NextService ==
    DoSetServiceEnable
       /\ UNCHANGED <<deltaVars, gpuVars, enumVars, calcVars, guiVars, m_deltaDataMutex, callers, series>>

SpecService == InitService /\ [][NextService]_vars

\* Series of calculateDelta calls on the counters of one process, with
\* resets in between.
InitSeries ==
    /\ CalcIdle /\ CallersIdle /\ SeriesIdle /\ ServiceIdle /\ MonitorIdle /\ ViewIdle
    /\ DeltaInit /\ EnumIdle /\ GpuInitIn(FullEnvironment)

SeriesFrame ==
    UNCHANGED <<gpuVars, enumVars, calcVars, guiVars, m_deltaDataMutex, callers, unitFiles,
                lastServiceCall>>

NextSeries ==
    \/ SeriesCalculateDelta /\ SeriesFrame
    \/ SeriesReset /\ SeriesFrame

SpecSeries == InitSeries /\ [][NextSeries]_vars

\* A step that is a call of calculateDelta on a known field / of reset.
CalcStep == deltaCalcs' # deltaCalcs /\ deltaCall'.field \in KnownFields
ResetStep == deltaResets' # deltaResets

\* C3: the first calculateDelta(pid, field, v) of a (pid, field) pair with no
\* cached state (never observed, or first after a reset of the pid) returns 0
\* whatever v is and records v as the baseline, for each of the seven fields.
C3_FirstCallZeroAndBaseline ==
    [][(CalcStep /\ <<deltaCall'.pid, deltaCall'.field>> \notin DOMAIN observed)
        => /\ deltaCall'.delta = 0
           /\ deltaCall'.pid \in DOMAIN m_processLastValues'
           /\ m_processLastValues'[deltaCall'.pid][deltaCall'.field]
                 = [last |-> deltaCall'.value, firstTime |-> FALSE]]_vars

\* C3 witness: a first call after a reset of the pid, with the largest value,
\* returned 0.
C3_Witness ==
    /\ deltaCall.op = "calculateDelta" /\ deltaCall.first
    /\ deltaCall.field = "cancelled_write_bytes"
    /\ deltaCall.pid \in resetPids
    /\ deltaCall.value = U64Max /\ deltaCall.delta = 0

\* C4: a non-first calculateDelta(pid, field, v) with stored baseline b returns
\* v - b when v >= b and 0 when v < b, the baseline becomes v, and the result
\* is never a wrapped-around difference (it is at most v).
C4_DeltaOrZero ==
    [][(CalcStep /\ <<deltaCall'.pid, deltaCall'.field>> \in DOMAIN observed)
        => LET k == <<deltaCall'.pid, deltaCall'.field>>
               b == observed[k]
               v == deltaCall'.value
           IN  /\ m_processLastValues[k[1]][k[2]].last = b
               /\ deltaCall'.delta = IF v >= b THEN v - b ELSE 0
               /\ deltaCall'.delta >= 0 /\ deltaCall'.delta <= v
               /\ m_processLastValues'[k[1]][k[2]].last = v]_vars

\* C4 witness: a non-first call whose value is below the baseline returned 0.
C4_Witness ==
    /\ deltaCall.op = "calculateDelta" /\ ~deltaCall.first
    /\ deltaCall.field \in KnownFields
    /\ deltaCall.value < deltaCall.base /\ deltaCall.delta = 0

\* C5: resetProcessDeltaData(pid) removes the entry of pid and leaves every
\* other pid's entry as it was; the next calculateDelta of any field of that
\* pid returns 0 whatever the value; a calculateDelta never removes an entry.
C5_ResetDropsOnlyThatPid ==
    [][/\ ResetStep =>
            /\ deltaCall'.pid \notin DOMAIN m_processLastValues'
            /\ DOMAIN m_processLastValues' = (DOMAIN m_processLastValues) \ {deltaCall'.pid}
            /\ \A q \in DOMAIN m_processLastValues' :
                   m_processLastValues'[q] = m_processLastValues[q]
       /\ (CalcStep /\ deltaCall'.pid \in resetPids
                    /\ \A f \in KnownFields : <<deltaCall'.pid, f>> \notin DOMAIN observed)
            => deltaCall'.delta = 0
       /\ (deltaCalcs' # deltaCalcs)
            => DOMAIN m_processLastValues \subseteq DOMAIN m_processLastValues']_vars

\* C5 witness: a reset of one pid has happened while another pid keeps a
\* non-zero baseline.
C5_Witness ==
    /\ deltaCall.op = "reset"
    /\ deltaCall.pid \in resetPids
    /\ \E q \in DOMAIN m_processLastValues :
           /\ q # deltaCall.pid
           /\ m_processLastValues[q]["utime"] = [last |-> U64Max, firstTime |-> FALSE]


RECURSIVE C26_SumOfDeltas(_, _)
C26_SumOfDeltas(s, i) == IF i > Len(s) THEN 0 ELSE s[i].delta + C26_SumOfDeltas(s, i + 1)

C26_NonDecreasing(s) == \A i \in 1..(Len(s) - 1) : s[i].value <= s[i + 1].value

\* C26: for every pid and field, the deltas returned for a non-decreasing
\* series of values with no reset in between add up to the last value minus
\* the first, and in any series no delta exceeds the value passed in its call.
C26_DeltasTelescope ==
    \A k \in DOMAIN series :
       LET s == series[k]
       IN  /\ C26_NonDecreasing(s) =>
                C26_SumOfDeltas(s, 1) = s[Len(s)].value - s[1].value
           /\ \A i \in 1..Len(s) : s[i].delta <= s[i].value

\* Three strictly growing values have been passed for one counter, ending at
\* the largest value, and the deltas returned add up to the whole growth.
C26_Witness ==
    \E k \in DOMAIN series :
       LET s == series[k]
       IN  /\ Len(s) = 3
           /\ s[1].value < s[2].value /\ s[2].value < s[3].value
           /\ s[1].value > 0
           /\ s[3].value = U64Max
           /\ C26_SumOfDeltas(s, 1) = s[3].value - s[1].value

(***************************************************************************)
(* Claims about GpuService and the backends                                *)
(***************************************************************************)

\* The first backend of the order Nvidia, AMD, Intel that supports a device of
\* the given vendor, NVML being available or not: "none" when there is none.
C1_FirstSupporting(vendor, available) ==
    CASE vendor = "Nvidia" /\ available -> "Nvidia"
      [] vendor = "AMD" -> "AMD"
      [] vendor = "Intel" -> "Intel"
      [] OTHER -> "none"

\* C1: readStatsFor asks the backends in the order Nvidia, AMD, Intel up to the
\* first one that supports the device, calls readStats of that backend only
\* and returns its result, whatever it is; no backend is read and false is
\* returned when none supports the device, as for an Nvidia device while NVML
\* is unavailable.
C1_DispatchFirstSupporting ==
    lastRead.called =>
        LET order == <<"Nvidia", "AMD", "Intel">>
            want == C1_FirstSupporting(lastRead.device.vendor, lastRead.available)
            n == Len(lastRead.asked)
        IN  /\ n \in 1..3
            /\ lastRead.asked = SubSeq(order, 1, n)
            /\ IF want = "none"
               THEN /\ n = 3
                    /\ lastRead.readers = <<>>
                    /\ lastRead.ret = "false"
                    /\ lastRead.out = DefaultGpuStats
               ELSE /\ order[n] = want
                    /\ lastRead.readers = <<want>>
                    /\ lastRead.ret = lastRead.readerRet

\* An Nvidia device was read while NVML was unavailable: all three backends
\* were asked, none was read, the call returned false.
C1_Witness ==
    /\ lastRead.called
    /\ lastRead.device.vendor = "Nvidia"
    /\ ~lastRead.available
    /\ lastRead.asked = <<"Nvidia", "AMD", "Intel">>
    /\ lastRead.readers = <<>>
    /\ lastRead.ret = "false"

\* C2: readStats of a backend returns success if and only if at least one
\* telemetry field was obtained during that call.
C2_SuccessIffObtained ==
    (lastRead.called /\ lastRead.readers # <<>> /\ lastRead.ret # "crash") =>
        ((lastRead.ret = "true") <=> lastRead.obtained)

\* C7: after a successful read, utilizationPercent is -1 or within 0..100.
C7_UtilizationInRange ==
    (lastRead.called /\ lastRead.ret = "true") =>
        \/ lastRead.out.utilizationPercent = -1
        \/ lastRead.out.utilizationPercent \in 0..100

\* C8: after a successful read, memoryTotalBytes > 0 implies
\* memoryUsedBytes <= memoryTotalBytes.
C8_UsedWithinTotal ==
    (lastRead.called /\ lastRead.ret = "true" /\ lastRead.out.memoryTotalBytes > 0) =>
        lastRead.out.memoryUsedBytes <= lastRead.out.memoryTotalBytes

\* C9: with DSM_DISABLE_NVML set, the NVML library is never loaded (no load is
\* even attempted), the backend is never initialized, supports is false for
\* every device, and no read is served by the Nvidia backend.
C9_DisabledNvmlNeverLoaded ==
    env.disableNvml =>
        /\ nvmlLog.attempts = 0
        /\ nvmlLog.loads = 0
        /\ ~d_ptr.loaded
        /\ ~IsNvmlAvailable(d_ptr)
        /\ \A device \in GpuDevices : ~NvidiaSupports(d_ptr, device)
        /\ lastRead.called =>
              /\ lastRead.readers # <<"Nvidia">>
              /\ lastRead.device.vendor = "Nvidia" => lastRead.ret = "false"

\* With DSM_DISABLE_NVML set and a complete, working NVML library on disk, a
\* second GpuService has been constructed and an Nvidia device has been read.
C9_Witness ==
    /\ env.disableNvml
    /\ env.libLoadable
    /\ env.libSymbols = AllSymbols
    /\ env.initOk
    /\ svcState = "alive"
    /\ constructions = 2
    /\ lastRead.called
    /\ lastRead.device.vendor = "Nvidia"
    /\ lastRead.ret = "false"

\* C10: the backend is initialized only if all six required symbols resolve;
\* when one is missing, nvmlInit is never called, every load of the library
\* has been undone, the backend is uninitialized and supports is false.
C10_RequiredSymbols ==
    /\ IsNvmlAvailable(d_ptr) =>
          {"nvmlInit_v2", "nvmlShutdown", "nvmlDeviceGetHandleByPciBusId_v2",
           "nvmlDeviceGetUtilizationRates", "nvmlDeviceGetMemoryInfo",
           "nvmlDeviceGetTemperature"} \subseteq env.libSymbols
    /\ (\E s \in {"nvmlInit_v2", "nvmlShutdown", "nvmlDeviceGetHandleByPciBusId_v2",
                  "nvmlDeviceGetUtilizationRates", "nvmlDeviceGetMemoryInfo",
                  "nvmlDeviceGetTemperature"} : s \notin env.libSymbols) =>
          /\ nvmlLog.inits = 0
          /\ nvmlLog.unloads = nvmlLog.loads
          /\ ~d_ptr.loaded
          /\ ~IsNvmlAvailable(d_ptr)
          /\ \A device \in GpuDevices : ~NvidiaSupports(d_ptr, device)

\* A GpuService is alive whose library loads and would initialize but lacks
\* exactly one required symbol: the library was loaded and unloaded again.
C10_Witness ==
    /\ svcState = "alive"
    /\ ~env.disableNvml
    /\ env.libLoadable
    /\ env.initOk
    /\ Cardinality(RequiredSymbols \ env.libSymbols) = 1
    /\ nvmlLog.loads >= 1
    /\ nvmlLog.unloads = nvmlLog.loads
    /\ nvmlLog.inits = 0
    /\ ~d_ptr.initialized

\* C11: in an initialized backend where an optional symbol did not resolve, a
\* read invokes no null function pointer, the fields depending on the symbol
\* stay at their sentinel and the call still returns normally.
C11_OptionalSymbolsDegrade ==
    (lastRead.called /\ lastRead.readers = <<"Nvidia">>) =>
        /\ lastRead.nullCalls = {}
        /\ lastRead.ret # "crash"
        /\ "nvmlDeviceGetClockInfo" \notin env.libSymbols =>
              /\ lastRead.out.coreClockkHz = -1
              /\ lastRead.out.memoryClockkHz = -1

\* C12: over any sequence of service constructions, destructions and reads in
\* one process the library's init function is invoked at most once and the
\* library is loaded at most once.
C12_InitOneShot ==
    /\ nvmlLog.inits <= 1
    /\ nvmlLog.loads <= 1

\* C13: once an initialization has failed (library not loadable, a required
\* symbol missing, or init returning an error), supports is false for every
\* device from then on and the library is never tried again.
C13_NoRetryAfterFailure ==
    LET fails == \/ ~env.libLoadable
                 \/ ~(RequiredSymbols \subseteq env.libSymbols)
                 \/ ~env.initOk
    IN  (~env.disableNvml /\ fails /\ nvmlLog.attempts >= 1) =>
            /\ \A device \in GpuDevices : ~NvidiaSupports(d_ptr, device)
            /\ nvmlLog.attempts = 1

\* C14: shutdownNvml (run when the service is destroyed) leaves the backend
\* with the library unloaded, initialized false and every function pointer
\* null; it calls the library's shutdown function exactly once if the backend
\* was initialized and not at all otherwise, and unloads a loaded library.
C14_ShutdownLeavesNothing ==
    [][(svcState = "alive" /\ svcState' = "none") =>
          /\ ~d_ptr'.initialized
          /\ ~d_ptr'.loaded
          /\ d_ptr'.fn = {}
          /\ nvmlLog'.shutdowns =
                nvmlLog.shutdowns + (IF d_ptr.initialized THEN 1 ELSE 0)
          /\ nvmlLog'.unloads = nvmlLog.unloads + (IF d_ptr.loaded THEN 1 ELSE 0)
          /\ nvmlLog'.unloads = nvmlLog'.loads]_vars

\* An initialized backend has been shut down: one init, one shutdown, the
\* library unloaded, no pointer left.
C14_Witness ==
    /\ svcState = "none"
    /\ nvmlLog.inits = 1
    /\ nvmlLog.shutdowns = 1
    /\ nvmlLog.loads = 1
    /\ nvmlLog.unloads = 1
    /\ d_ptr = [initialized |-> FALSE, loaded |-> FALSE, fn |-> {}]

\* The MHz value of the line of a DPM file that carries the '*' marker, when
\* exactly one line carries it and is written "<n>Mhz"; -1 otherwise.
C16_MarkedMhz(file) ==
    LET marked == {i \in 1..Len(file.lines) : file.lines[i].star}
    IN  IF file.exists /\ Cardinality(marked) = 1
           /\ \A i \in marked : file.lines[i].unit = "Mhz"
        THEN file.lines[CHOOSE i \in marked : TRUE].mhz
        ELSE -1

\* C16: for an AMD device whose pp_dpm_sclk (pp_dpm_mclk) holds level lines
\* with the '*' marker on one of them, whichever it is, readStats reports
\* coreClockkHz (memoryClockkHz) as 1000 times the MHz value of that line.
C16_ClockOfMarkedLine ==
    (lastRead.called /\ lastRead.readers = <<"AMD">>) =>
        /\ C16_MarkedMhz(lastRead.src.amd.pp_dpm_sclk) > 0 =>
              lastRead.out.coreClockkHz =
                 1000 * C16_MarkedMhz(lastRead.src.amd.pp_dpm_sclk)
        /\ C16_MarkedMhz(lastRead.src.amd.pp_dpm_mclk) > 0 =>
              lastRead.out.memoryClockkHz =
                 1000 * C16_MarkedMhz(lastRead.src.amd.pp_dpm_mclk)

\* initialized implies a loaded library and the six required pointers.
C27_InitializedMeansResolved ==
    d_ptr.initialized => (d_ptr.loaded /\ RequiredSymbols \subseteq d_ptr.fn)

\* A step in which the backend invoked an NVML entry point other than the
\* init call of initializeNvml: a read that reached NVML, or nvmlShutdown.
C27_ReadInvokedNvml == lastRead' # lastRead /\ lastRead'.nvmlCalls # {}

C27_ShutdownInvoked == nvmlLog'.shutdowns > nvmlLog.shutdowns

\* C27: through construction, reads and shutdown of the Nvidia backend,
\* initialized = true implies that the library is loaded and the six required
\* function pointers are non-null, and an NVML entry point other than the
\* init call of initializeNvml is invoked only while initialized = true.
C27_NvmlOnlyWhenInitialized ==
    /\ []C27_InitializedMeansResolved
    /\ [][(C27_ReadInvokedNvml \/ C27_ShutdownInvoked) => d_ptr.initialized]_vars

\* The backend lives on after a failed initialization (nvmlInit_v2 failed or
\* a required symbol was missing, pointers resolved so far left in place) and
\* a read of an Nvidia device has been made on it.
C27_Witness ==
    /\ svcState = "alive"
    /\ ~d_ptr.initialized
    /\ d_ptr.fn # {}
    /\ lastRead.called
    /\ lastRead.device.vendor = "Nvidia"
    /\ ~lastRead.available
    /\ lastRead.nvmlCalls = {}

(***************************************************************************)
(* Claims about GpuReader::enumerate                                       *)
(***************************************************************************)

\* The names card<digits> among the names of the model.
C6_CardDigitNames ==
    {<<"c", "a", "r", "d">> \o ds : ds \in UNION {[1..n -> Digits] : n \in 1..2}}

\* The vendor a device/vendor line denotes when read trimmed and without
\* regard to case; "Unknown" for every other line.
C6_VendorOfLine(line) ==
    CASE line \in {<<"0", "x", "1", "0", "d", "e", "\n">>,
                   <<"0", "X", "1", "0", "D", "E", "\n">>} -> "Nvidia"
      [] line \in {<<"0", "x", "1", "0", "0", "2", "\n">>,
                   <<"0", "x", "1", "0", "2", "2", "\n">>} -> "AMD"
      [] line \in {<<"0", "x", "8", "0", "8", "6", "\n">>,
                   <<" ", "0", "x", "8", "0", "8", "6", " ", "\n">>} -> "Intel"
      [] OTHER -> "Unknown"

\* Whether an entry is a card<digits> entry with a device subdirectory whose
\* vendor file names one of the three vendors.
C6_IsGpuCard(e) ==
    /\ e.name \in C6_CardDigitNames
    /\ e.device = "dir"
    /\ e.vendor.exists
    /\ C6_VendorOfLine(e.vendor.line) # "Unknown"

\* The entries of a listing that are GPU cards, in listing order.
RECURSIVE C6_GpuCards(_)
C6_GpuCards(entries) ==
    IF entries = <<>> THEN <<>>
    ELSE (IF C6_IsGpuCard(entries[1])
          THEN <<[card |-> entries[1].name,
                  vendor |-> C6_VendorOfLine(entries[1].vendor.line)]>>
          ELSE <<>>) \o C6_GpuCards(Tail(entries))

\* C6: enumerate returns one device for exactly the entries named card<digits>
\* that have a device subdirectory and a vendor file reading 0x10de (Nvidia),
\* 0x1002 or 0x1022 (AMD) or 0x8086 (Intel), trimmed and in any case; no device
\* has vendor Unknown; without card* entries the result is empty.
C6_EnumerateExactlyGpuCards ==
    enumerated.called =>
        /\ enumerated.devices = C6_GpuCards(enumerated.listing)
        /\ \A i \in 1..Len(enumerated.devices) :
              enumerated.devices[i].vendor \in {"Nvidia", "AMD", "Intel"}
        /\ (\A i \in 1..Len(enumerated.listing) :
               SubSeq(enumerated.listing[i].name, 1, 4) # <<"c", "a", "r", "d">>)
              => enumerated.devices = <<>>

\* enumerate ran on a listing with a connector node that has a device and an
\* Nvidia vendor file, and a card whose vendor file is in upper case: only the
\* card was returned.
C6_Witness ==
    /\ enumerated.called
    /\ Len(enumerated.listing) = 2
    /\ enumerated.listing[1].name = <<"c", "a", "r", "d", "0", "-", "H", "D", "M", "I", "-", "A", "-", "1">>
    /\ enumerated.listing[1].device = "dir"
    /\ enumerated.listing[1].vendor.exists
    /\ enumerated.listing[2].vendor = FileWithLine(<<"0", "X", "1", "0", "D", "E", "\n">>)
    /\ enumerated.devices = <<[card |-> <<"c", "a", "r", "d", "1">>, vendor |-> "Nvidia"]>>

\* C15: devices() enumerates on its first call only; every later call returns
\* the list of the first call, whatever it was and whatever has changed in
\* /sys/class/drm since.
C15_DevicesCachedAfterFirstCall ==
    devicesLog.calls >= 1 =>
        /\ devicesLog.enumerations = 1
        /\ devicesLog.last = devicesLog.first
        /\ m_devices = devicesLog.first
(***************************************************************************)
(* Claims about the parsing and averaging functions                        *)
(***************************************************************************)

\* The lines of a DPM text that carry '*' and a number in front of Mhz or Ghz.
C17_MarkedLines(lines) ==
    {i \in 1..Len(lines) : lines[i].star /\ lines[i].unit \in {"Mhz", "Ghz"}}

\* The DPM text "0: 300Mhz\n1: 600Mhz *\n2: 900Mhz\n".
C17_Example ==
    <<[mhz |-> 300, unit |-> "Mhz", star |-> FALSE],
      [mhz |-> 600, unit |-> "Mhz", star |-> TRUE],
      [mhz |-> 900, unit |-> "Mhz", star |-> FALSE]>>

\* C17: parseCurrentClockFromDpm on a whole multi-line DPM text returns the
\* number in front of Mhz/Ghz on the first line that carries '*' and matches,
\* and -1 when no line carries the marker; on the example text it returns 600,
\* which readStats converts to 600000 kHz.
C17_ParseCurrentClock ==
    (calcOut.done /\ calcIn.fn = "parseCurrentClockFromDpm") =>
        LET lines == calcIn.lines
            marked == C17_MarkedLines(lines)
        IN  /\ marked # {} =>
                  \E i \in marked :
                     /\ \A j \in marked : i <= j
                     /\ calcOut.result = lines[i].mhz
                     /\ calcOut.kHz = 1000 * lines[i].mhz
            /\ (\A i \in 1..Len(lines) : ~lines[i].star) => calcOut.result = -1
            /\ marked = {} => calcOut.result = -1 /\ calcOut.kHz = -1
            /\ lines = C17_Example => calcOut.result = 600 /\ calcOut.kHz = 600000

\* The example text has been parsed: 600 MHz, 600000 kHz.
C17_Witness ==
    /\ calcOut.done
    /\ calcIn.fn = "parseCurrentClockFromDpm"
    /\ calcIn.lines = C17_Example
    /\ calcOut.result = 600
    /\ calcOut.kHz = 600000

\* C18: a marked DPM line written with any letter case of the unit Mhz or Ghz
\* yields the same clock value, its number, in GpuBackendAmd as in GpuReader.
C18_UnitCaseInsensitive ==
    (/\ calcOut.done
     /\ calcIn.fn = "readClockInfo"
     /\ calcIn.file.lines[1].star
     /\ calcIn.file.lines[1].unit \in {"Mhz", "MHz", "mhz", "MHZ", "Ghz", "ghz"}) =>
        /\ calcOut.result = calcIn.file.lines[1].mhz
        /\ calcOut.result = calcOut.reader

\* The valid utilization values of an engine list, by position.
C19_Valid(engines) == {i \in 1..Len(engines) : engines[i].utilizationPercent >= 0}

\* The sum of the utilization values at the positions of a set.
RECURSIVE C19_Sum(_, _)
C19_Sum(engines, positions) ==
    IF positions = {} THEN 0
    ELSE LET i == CHOOSE p \in positions : TRUE
         IN  engines[i].utilizationPercent + C19_Sum(engines, positions \ {i})

\* The utilization values of an engine list, in order.
C19_Values(engines) == [i \in 1..Len(engines) |-> engines[i].utilizationPercent]

\* C19: calculateAverageUtilization returns the integer quotient of the sum
\* of the utilization values >= 0 by their number, and -1 when the list is
\* empty or holds no valid value; {40, -1, 60} gives 50.
C19_AverageOfValid ==
    (calcOut.done /\ calcIn.fn = "calculateAverageUtilization") =>
        LET engines == calcIn.engines
            valid == C19_Valid(engines)
        IN  /\ valid = {} => calcOut.result = -1
            /\ valid # {} =>
                  calcOut.result = C19_Sum(engines, valid) \div Cardinality(valid)
            /\ C19_Values(engines) = <<40, -1, 60>> => calcOut.result = 50

\* The engines {40, -1, 60} have been averaged to 50.
C19_Witness ==
    /\ calcOut.done
    /\ calcIn.fn = "calculateAverageUtilization"
    /\ C19_Values(calcIn.engines) = <<40, -1, 60>>
    /\ calcOut.result = 50

(***************************************************************************)
(* Claims about the Intel engine cache                                     *)
(***************************************************************************)

\* What the engine directories hold for the cached engines of a device path
\* during a read: each engine with the busy_percent readable now, or -1.
C20_FreshEngines(path, listing) ==
    LET entries == IF listing.exists THEN listing.entries ELSE <<>>
        names == [i \in 1..Len(m_engineCache[path]) |-> m_engineCache[path][i].name]
        now(name) ==
            LET here == {i \in 1..Len(entries) :
                            /\ entries[i].name = name
                            /\ entries[i].busy_percent.ok
                            /\ entries[i].busy_percent.v >= 0}
            IN  IF here = {} THEN -1
                ELSE entries[CHOOSE i \in here : \A j \in here : i <= j].busy_percent.v
    IN  [i \in 1..Len(names) |-> [utilizationPercent |-> now(names[i])]]

\* C20: a read of an Intel device whose engine list is served from the cache
\* reports the utilization read from sysfs during that very read: the average
\* of the busy_percent values readable now, unavailable (-1) when none is,
\* never a value seen at discovery.
C20_UtilizationIsFresh ==
    (/\ lastRead.called
     /\ lastRead.readers = <<"Intel">>
     /\ lastRead.cached
     /\ lastRead.device.devicePath \in DOMAIN m_engineCache) =>
        LET engines == C20_FreshEngines(lastRead.device.devicePath, lastRead.src.intel.engine)
            valid == C19_Valid(engines)
        IN  lastRead.out.utilizationPercent =
               IF valid = {} THEN -1 ELSE C19_Sum(engines, valid) \div Cardinality(valid)

(***************************************************************************)
(* Claims about the device name                                            *)
(***************************************************************************)

\* The name each lspci output of the model stands for, <<>> where the output
\* holds no product text after its second colon.
C23_LspciName(output) ==
    CASE output = <<"01", ":", "00.0 VGA compatible controller", ":", " ",
                    "NVIDIA Corporation", " ", "TU116 [GeForce GTX 1660 SUPER]",
                    " (rev ", "a1)", "\n">>
           -> <<"TU116 [GeForce GTX 1660 SUPER]">>
      [] output = <<"03", ":", "00.0 VGA compatible controller", ":", " ",
                    "Advanced Micro Devices, Inc. [AMD/ATI]", " ", "Navi 10",
                    " (rev ", "c1)", "\n">>
           -> <<"AMD", " ", "Navi 10">>
      [] output = <<"00", ":", "02.0 VGA compatible controller", ":", " ",
                    "Intel Corporation", " ", "UHD Graphics 630", "\n">>
           -> <<"Intel", " ", "UHD Graphics 630">>
      [] output = <<"04", ":", "00.0 Display controller", ":", " ", "Device 1234",
                    " (rev ", "01)", "\n">>
           -> <<"Device 1234">>
      [] OTHER -> <<>>

\* The value of the first line of a uevent file with the given key, without
\* its newline; <<>> if there is none.
C23_UeventValue(uevent, key) ==
    LET hits == {i \in 1..Len(uevent.lines) : uevent.lines[i].key = key}
    IN  IF ~uevent.exists \/ hits = {} THEN <<>>
        ELSE LET v == uevent.lines[CHOOSE i \in hits : \A j \in hits : i <= j].value
             IN  SelectSeq(v, LAMBDA c : c # "\n")

\* The name the strategies give in their order, for a device directory.
C23_Expected(dev, vendor) ==
    LET product == IF dev.product_name.exists
                   THEN SelectSeq(dev.product_name.line, LAMBDA c : c # "\n") ELSE <<>>
        lspci == IF C23_UeventValue(dev.uevent, "PCI_SLOT_NAME") # <<>> /\ dev.lspci.finished
                 THEN C23_LspciName(dev.lspci.output) ELSE <<>>
        driver == C23_UeventValue(dev.uevent, "DRIVER")
        id == C23_UeventValue(dev.uevent, "PCI_ID")
    IN  IF product # <<>> THEN [name |-> product, strategy |-> "product_name"]
        ELSE IF lspci # <<>> THEN [name |-> lspci, strategy |-> "lspci"]
        ELSE IF driver # <<>>
        THEN [name |-> IF id # <<>> THEN driver \o <<" (">> \o id \o <<")">> ELSE driver,
              strategy |-> "uevent"]
        ELSE [name |-> CASE vendor = "Nvidia" -> <<"NVIDIA GPU">>
                         [] vendor = "AMD" -> <<"AMD GPU">>
                         [] vendor = "Intel" -> <<"Intel GPU">>
                         [] OTHER -> <<"GPU">>,
              strategy |-> "vendor"]

\* C23: detectName returns the value of the first strategy that yields one, in
\* the order product_name, lspci (bus id known, finished in time, parsable
\* output: the text after the second colon without '(rev ..)' and with the
\* vendor prefix normalised), uevent DRIVER= plus PCI_ID=, vendor literal; an
\* lspci that times out or fails only moves on to the next strategy, and the
\* name is never empty.
C23_NameFallback ==
    (calcOut.done /\ calcIn.fn = "detectName") =>
        LET e == C23_Expected(calcIn.dev, calcIn.vendor)
        IN  /\ calcOut.name.name = e.name
            /\ calcOut.name.strategy = e.strategy
            /\ calcOut.name.name # <<>>
            /\ calcOut.name.lspci => C23_UeventValue(calcIn.dev.uevent, "PCI_SLOT_NAME") # <<>>
            /\ (~calcIn.dev.lspci.finished /\ ~calcIn.dev.product_name.exists) =>
                  calcOut.name.strategy \in {"uevent", "vendor"}

\* product_name is absent, the bus id is known and lspci printed the GTX 1660
\* SUPER line: the name is "TU116 [GeForce GTX 1660 SUPER]".
C23_Witness ==
    /\ calcOut.done
    /\ calcIn.fn = "detectName"
    /\ ~calcIn.dev.product_name.exists
    /\ calcIn.dev.lspci.finished
    /\ calcOut.name.strategy = "lspci"
    /\ calcOut.name.name = <<"TU116 [GeForce GTX 1660 SUPER]">>

(***************************************************************************)
(* Claims about the compact GPU monitor                                    *)
(***************************************************************************)

\* Vendor priority order Nvidia, AMD, Intel, Unknown.
C21_Rank(vendor) ==
    CASE vendor = "Nvidia" -> 1 [] vendor = "AMD" -> 2 [] vendor = "Intel" -> 3
      [] vendor = "Unknown" -> 4

\* The candidates of a list whose read succeeds in a system state, and those
\* among them that report a utilization > 0.
C21_Readable(devices, stats) ==
    {devices[i] : i \in {j \in 1..Len(devices) :
        devices[j].vendor # "Unknown" /\ stats[devices[j].devicePath].ret}}

C21_Busy(devices, stats) ==
    {d \in C21_Readable(devices, stats) : stats[d.devicePath].utilizationPercent > 0}

\* A device of a set that no device of the set precedes in vendor priority.
C21_IsFirstOf(d, set) ==
    d \in set /\ \A e \in set : C21_Rank(d.vendor) <= C21_Rank(e.vendor)

\* What a selection from no selected device must leave, given the candidates
\* and the system state.
C21_SelectionFor(m, devices, stats) ==
    IF C21_Busy(devices, stats) # {}
    THEN m.m_hasDevice /\ C21_IsFirstOf(m.m_device, C21_Busy(devices, stats))
    ELSE IF C21_Readable(devices, stats) # {}
    THEN m.m_hasDevice /\ C21_IsFirstOf(m.m_device, C21_Readable(devices, stats))
    ELSE ~m.m_hasDevice

\* C21: selectBestGpuDevice, run with no device selected, selects the first
\* candidate in vendor priority order whose read succeeds with utilization
\* > 0, else the first whose read succeeds at all, else none; with
\* [Intel(util=0), Nvidia(util=45)] it selects the Nvidia device.
C21_SelectBest ==
    (monitor.constructed /\ monitorLog.selected /\ monitorLog.ticks = 0) =>
        /\ C21_SelectionFor(monitor, monitorLog.devices, monitorLog.stats)
        /\ monitor.m_hasDevice =>
              monitor.m_stats.utilizationPercent =
                 monitorLog.stats[monitor.m_device.devicePath].utilizationPercent

\* The monitor was constructed on [Intel(util=0), Nvidia(util=45)] and holds
\* the Nvidia device.
C21_Witness ==
    /\ monitor.constructed
    /\ monitorLog.ticks = 0
    /\ monitorLog.devices = <<[vendor |-> "Intel", devicePath |-> 0],
                              [vendor |-> "Nvidia", devicePath |-> 1]>>
    /\ monitorLog.stats[0] = [ret |-> TRUE, utilizationPercent |-> 0]
    /\ monitorLog.stats[1] = [ret |-> TRUE, utilizationPercent |-> 45]
    /\ monitor.m_hasDevice
    /\ monitor.m_device.vendor = "Nvidia"

\* C22: a tick whose read of the selected device fails re-runs the selection
\* over all candidates within the tick; a selection that finds no readable
\* device leaves the monitor without device, and every tick of a monitor
\* without device selects again, so a candidate that has become readable is
\* selected at the next tick.
C22_Failover ==
    [][(monitor.constructed /\ monitorLog'.ticks = monitorLog.ticks + 1) =>
          LET devices == m_devices'
              readable == C21_Readable(devices, sysStats)
              failed == monitor.m_hasDevice /\ monitor.m_device \notin readable
          IN  /\ failed => /\ monitorLog'.selected
                           /\ C21_SelectionFor(monitor', devices, sysStats)
              /\ ~monitor.m_hasDevice =>
                    /\ monitorLog'.selected
                    /\ C21_SelectionFor(monitor', devices, sysStats)
              /\ (failed \/ ~monitor.m_hasDevice) =>
                    (monitor'.m_hasDevice <=> readable # {})
              /\ (monitor.m_hasDevice /\ ~failed) =>
                    monitor'.m_hasDevice /\ monitor'.m_device = monitor.m_device]_vars

\* A tick has failed over: the selected device was unreadable and another
\* candidate is now selected.
C22_Witness ==
    /\ monitorLog.ticks > 0
    /\ monitorLog.readFailed
    /\ monitor.m_hasDevice
    /\ monitor.m_device \in C21_Readable(monitorLog.devices, monitorLog.stats)

(***************************************************************************)
(* Claims about the GPU detail view                                        *)
(***************************************************************************)

\* The utilization a device counts with in the ordering: the value a
\* successful read reports in 0..100, and below all of them when the read
\* fails or the utilization is unavailable.
C25_Key(device, stats) ==
    IF /\ device.vendor # "Unknown"
       /\ stats[device.devicePath].ret
       /\ stats[device.devicePath].utilizationPercent \in 0..100
    THEN stats[device.devicePath].utilizationPercent
    ELSE -1

\* C25: sortDevicesByUtilization orders the devices by descending utilization,
\* a failed read or an unavailable utilization counting as the lowest, ties
\* broken by vendor priority Nvidia > AMD > Intel > Unknown; a device with
\* unavailable utilization never precedes one that reports a real utilization.
C25_SortedByUtilization ==
    (view.constructed /\ viewLog.rebuilt) =>
        \A i, j \in 1..Len(view.m_devices) :
           i < j =>
              LET ki == C25_Key(view.m_devices[i], viewLog.stats)
                  kj == C25_Key(view.m_devices[j], viewLog.stats)
              IN  \/ ki > kj
                  \/ /\ ki = kj
                     /\ C21_Rank(view.m_devices[i].vendor) <= C21_Rank(view.m_devices[j].vendor)

\* C28: across two consecutive update ticks in which the service returns the
\* same devices and the view was not re-entered, updateGpuDevices leaves
\* m_devices and the GPU items as they are, whatever order the utilization
\* sort gave them.
C28_NoRebuildWithoutChange ==
    [][(/\ view.constructed
        /\ viewLog'.ticks = viewLog.ticks + 1
        /\ ~view.m_isFirstEnter
        /\ viewLog'.devices = viewLog.devices) =>
          /\ ~viewLog'.rebuilt
          /\ view'.m_devices = view.m_devices
          /\ Len(view'.m_gpuItems) = Len(view.m_gpuItems)
          /\ \A i \in 1..Len(view.m_gpuItems) :
                view'.m_gpuItems[i].m_device = view.m_gpuItems[i].m_device]_vars

\* C29: a timeout of the update timer makes every GPU item take exactly one
\* sample, and the history of an item never holds more than m_pointsNumber
\* (30) values, each within 0..1 (0..100 hundredths).
C29_OneSamplePerTimeout ==
    (view.constructed /\ viewLog.ticks > 0) =>
        \A i \in 1..Len(view.m_gpuItems) :
           /\ viewLog.samples[i] = 1
           /\ Len(view.m_gpuItems[i].m_utilizationHistory) <= 30
           /\ \A k \in 1..Len(view.m_gpuItems[i].m_utilizationHistory) :
                 view.m_gpuItems[i].m_utilizationHistory[k] \in 0..100

(***************************************************************************)
(* Claims about the system server                                          *)
(***************************************************************************)

\* The orders in which the calls of the threads can be made one after another.
C24_Orders ==
    {o \in [1..MaxThreads -> Threads] : \A i, j \in 1..MaxThreads : o[i] = o[j] => i = j}

\* The calls made one after another in the order given, from the i-th on,
\* starting from map: the final map and the delta each thread gets.
RECURSIVE C24_Replay(_, _, _, _)
C24_Replay(order, i, map, deltas) ==
    IF i > Len(order) THEN [map |-> map, deltas |-> deltas]
    ELSE LET t == order[i]
             c == callers[t].call
         IN  IF c.op = "reset"
             THEN C24_Replay(order, i + 1, ResetProcessDeltaData(map, c.pid), deltas)
             ELSE LET r == CalculateDelta(map, c.pid, c.field, c.value)
                  IN  C24_Replay(order, i + 1, r.map, [deltas EXCEPT ![t] = r.delta])

C24_AllReturned == \A t \in Threads : callers[t].pc = "done"

\* C24: whatever the interleaving of concurrent calculateDelta and
\* resetProcessDeltaData calls, once all have returned, the deltas returned
\* and the baselines left are those of the same calls made one after another
\* in some order.
C24_AtomicUnderMutex ==
    (DOMAIN callers = Threads /\ C24_AllReturned) =>
       \E o \in C24_Orders :
          LET r == C24_Replay(o, 1, [p \in {} |-> NewProcessDeltaData], [t \in Threads |-> 0])
          IN  /\ r.map = m_processLastValues
              /\ \A t \in Threads : r.deltas[t] = callers[t].delta

\* Two threads have sampled the same field of the same process with
\* different values at the same time, both calls have returned, and the later
\* one was given the difference.
C24_Witness ==
    /\ DOMAIN callers = Threads
    /\ C24_AllReturned
    /\ \E t, u \in Threads :
          /\ t # u
          /\ callers[t].call.op = "calculateDelta"
          /\ callers[u].call.op = "calculateDelta"
          /\ callers[t].call.field = callers[u].call.field
          /\ callers[t].call.value < callers[u].call.value
          /\ callers[u].delta = callers[u].call.value - callers[t].call.value
          /\ callers[u].delta > 0

C30_CallerIsMonitor ==
    /\ lastServiceCall.in.caller.calledFromDBus
    /\ lastServiceCall.in.caller.pid > 0
    /\ lastServiceCall.in.caller.binary = MonitorExe

C30_NameValid ==
    /\ lastServiceCall.in.serviceName # <<>>
    /\ ~Contains(lastServiceCall.in.serviceName, ";")
    /\ ~Contains(lastServiceCall.in.serviceName, " ")

C30_Changed ==
    \E i \in 1..Len(lastServiceCall.commands) :
       lastServiceCall.commands[i] \in {"enable", "disable"}

C30_AllPassed ==
    /\ C30_CallerIsMonitor
    /\ C30_NameValid
    /\ lastServiceCall.listed
    /\ lastServiceCall.in.polkitYes

\* C30: setServiceEnable runs systemctl enable|disable only after the four
\* checks passed in order (the caller is the deepin-system-monitor
\* executable, the name is non-empty without ';' and space, the name occurs
\* in the unit-file listing, polkit authorized); when a check fails it
\* returns the EPERM or EINVAL text and runs no enable/disable command.
C30_ChecksBeforeCommand ==
    lastServiceCall.called =>
       /\ C30_Changed => C30_AllPassed
       /\ lastServiceCall.polkitAsked =>
             (C30_CallerIsMonitor /\ C30_NameValid /\ lastServiceCall.listed)
       /\ Contains(lastServiceCall.commands, "list-unit-files") =>
             (C30_CallerIsMonitor /\ C30_NameValid)
       /\ ~C30_AllPassed =>
             (lastServiceCall.ret \in {"EPERM", "EINVAL"} /\ ~C30_Changed)

====
